---- MODULE Spec2Model ----
(***************************************************************************)
(* The dodgeball simulation of src/src/pages/Index.tsx as a state machine. *)
(*                                                                         *)
(* Numbers.  The program computes in IEEE doubles; the model computes in   *)
(* fixed point.  Lengths, positions and velocities are integers in         *)
(* hundredths of a pixel (Px(1) = 100), dimensionless factors (friction,   *)
(* bounce, unit vectors, random fractions) are integers in thousandths,    *)
(* and every product is rounded toward zero (TDiv).  Time stamps are       *)
(* milliseconds since the clock origin; `undefined` time stamps are 0      *)
(* (falsy in the program as well), `undefined` ids are NoId.               *)
(*                                                                         *)
(* Fields that only the renderer reads (scale, rotation, player trail,     *)
(* movementPhase, patternOffset, auraPhase, lastAimAngle, nickname,        *)
(* avatar, hitTime, deathAnimation, throwAnimation, the particles'         *)
(* position, velocity, colour and size) are left out; a ball's trail is    *)
(* kept as its length and a particle as its remaining life.                *)
(*                                                                         *)
(* Three variables observe the program and are read by no handler: frame   *)
(* counts the runs of gameLoop since initGame, last names the handler that *)
(* ran last, and log lists what that handler did, in order.                *)
(***************************************************************************)
EXTENDS Integers, Sequences, FiniteSets, TLC

\* ------------------------------------------------------------ constants
\* window.innerWidth and window.innerHeight: a window of 240 by 100 pixels
CANVAS_WIDTH == 240
CANVAS_HEIGHT == 100
PLAYER_RADIUS == 20
BALL_RADIUS == 8
PLAYER_MAX_SPEED == 6
BOT_MAX_SPEED == 6
\* thousandths
BOT_ACCELERATION == 350
FRICTION == 900
MOVEMENT_SMOOTHING == 250
BALL_FRICTION == 985
BALL_BOUNCE == 700
THROW_FORCE == 18
AI_REACTION_DELAY == 15
RESPAWN_TIME == 5000
BALL_PICKUP_RADIUS == 30

\* ------------------------------------------------------------ bounds
\* gameLoop runs per match
MaxTicks == 90

\* ------------------------------------------------------------ arithmetic
Px(n) == n * 100

\* a / b rounded toward zero, b > 0
TDiv(a, b) == IF a >= 0 THEN a \div b ELSE -((-a) \div b)

\* a * (pm / 1000)
Frac(a, pm) == TDiv(a * pm, 1000)

RECURSIVE SqrtSearch(_, _, _)
SqrtSearch(n, lo, hi) ==
    IF lo >= hi THEN lo
    ELSE LET mid == (lo + hi + 1) \div 2
         IN  IF mid * mid <= n THEN SqrtSearch(n, mid, hi)
                               ELSE SqrtSearch(n, lo, mid - 1)

\* Math.sqrt, rounded down
Sqrt(n) == SqrtSearch(n, 0, 46340)

Vec(x, y) == [x |-> x, y |-> y]

distance(a, b) ==
    LET dx == a.x - b.x
        dy == a.y - b.y
    IN  Sqrt(dx * dx + dy * dy)

\* the unit vector of v in thousandths, (0,0) for the zero vector
normalize(v) ==
    LET len == Sqrt(v.x * v.x + v.y * v.y)
    IN  IF len > 0 THEN Vec(TDiv(v.x * 1000, len), TDiv(v.y * 1000, len))
                   ELSE Vec(0, 0)

\* ------------------------------------------------------------ state
VARIABLES
    gameState,        \* 'menu' | 'playing' | 'results'
    infiniteMode,
    teamSize,
    score,
    mousePosition,
    players,          \* playersRef.current
    balls,            \* ballsRef.current
    particles,        \* particlesRef.current
    gameStartTime,    \* gameStartTimeRef.current
    rafScheduled,     \* a requestAnimationFrame callback of gameLoop is pending
    effectPending,    \* a render has changed a dependency of the game-loop effect
    now,              \* Date.now()
    frame,            \* gameLoop runs since initGame
    last,             \* the handler that ran last
    log               \* what the last handler did, in order

vars == <<gameState, infiniteMode, teamSize, score, mousePosition, players, balls,
          particles, gameStartTime, rafScheduled, effectPending, now, frame, last, log>>

NoId == <<>>
Teams == {"purple", "blue"}
PlayerId(team, i) == <<team, i>>
BallId(team, i) == <<"ball", team, i>>

\* a variant of NewPlayer that gives the first player of the team to the human
NewPlayerHumanFirst(teamColor, i, size, playerTeam, xoff, delay) ==
    LET xBase == IF teamColor = "purple" THEN Frac(Px(CANVAS_WIDTH), 250)
                                         ELSE Frac(Px(CANVAS_WIDTH), 750)
    IN  [ id |-> PlayerId(teamColor, i),
          position |-> Vec(xBase + xoff,
                           Frac(Px(CANVAS_HEIGHT), 200)
                             + TDiv(i * Frac(Px(CANVAS_HEIGHT), 600), size)),
          velocity |-> Vec(0, 0),
          targetVelocity |-> Vec(0, 0),
          team |-> teamColor,
          isAlive |-> TRUE,
          isPlayer |-> (teamColor = playerTeam /\ i = 0),
          hasBall |-> TRUE,
          aiState |-> "idle",
          aiTimer |-> 0,
          throwDelay |-> delay,
          respawnTime |-> 0,
          kills |-> 0,
          hasAura |-> FALSE,
          invulnerableUntil |-> 0 ]

\* ------------------------------------------------------------ initGame
\* the i-th player (i from 0) of a team, from the two Math.random() draws that
\* matter: xoff in [-40, 40) pixels (in hundredths) and throwDelay in [60, 240)
NewPlayer(teamColor, i, size, playerTeam, xoff, delay) ==
    LET xBase == IF teamColor = "purple" THEN Frac(Px(CANVAS_WIDTH), 250)
                                         ELSE Frac(Px(CANVAS_WIDTH), 750)
    IN  [ id |-> PlayerId(teamColor, i),
          position |-> Vec(xBase + xoff,
                           Frac(Px(CANVAS_HEIGHT), 200)
                             + TDiv(i * Frac(Px(CANVAS_HEIGHT), 600), size)),
          velocity |-> Vec(0, 0),
          targetVelocity |-> Vec(0, 0),
          team |-> teamColor,
          isAlive |-> TRUE,
          isPlayer |-> (teamColor = playerTeam /\ i = size \div 2),
          hasBall |-> TRUE,
          aiState |-> "idle",
          aiTimer |-> 0,
          throwDelay |-> delay,
          respawnTime |-> 0,
          kills |-> 0,
          hasAura |-> FALSE,
          invulnerableUntil |-> 0 ]

NewBall(player) ==
    [ id |-> BallId(player.team, player.id[2]),
      position |-> player.position,
      velocity |-> Vec(0, 0),
      justThrown |-> FALSE,
      thrownBy |-> NoId,
      owner |-> player.id,
      trail |-> 0 ]

\* the roster in the order of the two nested loops: purple 0..size-1, blue 0..size-1
NewPlayers(size, playerTeam, draw) ==
    [k \in 1..(2 * size) |->
        NewPlayer(IF k <= size THEN "purple" ELSE "blue",
                  IF k <= size THEN k - 1 ELSE k - 1 - size,
                  size, playerTeam, draw.xoff[k], draw.delay[k])]

NewBalls(ps) == [k \in 1..Len(ps) |-> NewBall(ps[k])]

\* ------------------------------------------------------------ helpers
\* One entry of the log: what happened, to which ball and player (indices into
\* balls and players, 0 for none), and what held just before it happened.
Ev(type, b, p, t, lethal, owner, kills) ==
    [type |-> type, ball |-> b, player |-> p, thrower |-> t,
     lethal |-> lethal, owner |-> owner, kills |-> kills, before |-> <<>>, after |-> <<>>]

\* the kills of the roster, in roster order
Kills(ps) == [k \in 1..Len(ps) |-> ps[k].kills]

\* The entry of an elimination: the kills of the roster just before and just after it.
HitEv(b, p, t, lethal, owner, before, after) ==
    [type |-> "hit", ball |-> b, player |-> p, thrower |-> t,
     lethal |-> lethal, owner |-> owner, kills |-> before[t], before |-> before,
     after |-> after]

Min(S) == CHOOSE m \in S : \A k \in S : m <= k

\* players.find(p => p.id === id): its index, 0 when there is none
FindPlayer(ps, id) ==
    LET S == {i \in 1..Len(ps) : ps[i].id = id}
    IN  IF S = {} THEN 0 ELSE Min(S)

\* players.find(p => p.isPlayer)
FindHuman(ps) ==
    LET S == {i \in 1..Len(ps) : ps[i].isPlayer}
    IN  IF S = {} THEN 0 ELSE Min(S)

\* the indices of S in increasing order
RECURSIVE InOrder(_)
InOrder(S) == IF S = {} THEN <<>> ELSE <<Min(S)>> \o InOrder(S \ {Min(S)})

\* createParticles(x, y, color, count)
createParticles(ptcl, count) == ptcl \o [k \in 1..count |-> 60]

\* a variant of throwBall that throws the free balls for a player that owns none
throwBallOrFree(w, i, target) ==
    LET player == w.players[i]
        dir == normalize(Vec(target.x - player.position.x,
                             target.y - player.position.y))
        own == {j \in 1..Len(w.balls) : w.balls[j].owner = player.id}
        owned == IF own # {} THEN own
                 ELSE {j \in 1..Len(w.balls) : w.balls[j].owner = NoId}
    IN  IF owned = {} THEN w
        ELSE [w EXCEPT
                !.balls = [j \in 1..Len(w.balls) |->
                    IF j \in owned
                    THEN [w.balls[j] EXCEPT
                            !.owner = NoId,
                            !.velocity = Vec(TDiv(dir.x * Px(THROW_FORCE), 1000),
                                             TDiv(dir.y * Px(THROW_FORCE), 1000)),
                            !.justThrown = TRUE,
                            !.thrownBy = player.id,
                            !.trail = 0]
                    ELSE w.balls[j]],
                !.players[i].hasBall = FALSE,
                !.particles = createParticles(w.particles, 6 * Cardinality(owned)),
                !.log = w.log \o [k \in 1..Cardinality(owned) |->
                            [Ev("throw", InOrder(owned)[k], i, i,
                                w.balls[InOrder(owned)[k]].justThrown,
                                w.balls[InOrder(owned)[k]].owner, player.kills)
                             EXCEPT !.after = Vec(TDiv(dir.x * Px(THROW_FORCE), 1000),
                                                  TDiv(dir.y * Px(THROW_FORCE), 1000))]]]

\* ------------------------------------------------------------ throwBall
\* w is the world a handler works on: [players, balls, particles, log]
throwBall(w, i, target) ==
    LET player == w.players[i]
        dir == normalize(Vec(target.x - player.position.x,
                             target.y - player.position.y))
        owned == {j \in 1..Len(w.balls) : w.balls[j].owner = player.id}
    IN  IF owned = {} THEN w
        ELSE [w EXCEPT
                !.balls = [j \in 1..Len(w.balls) |->
                    IF j \in owned
                    THEN [w.balls[j] EXCEPT
                            !.owner = NoId,
                            !.velocity = Vec(TDiv(dir.x * Px(THROW_FORCE), 1000),
                                             TDiv(dir.y * Px(THROW_FORCE), 1000)),
                            !.justThrown = TRUE,
                            !.thrownBy = player.id,
                            !.trail = 0]
                    ELSE w.balls[j]],
                !.players[i].hasBall = FALSE,
                !.particles = createParticles(w.particles, 6 * Cardinality(owned)),
                !.log = w.log \o [k \in 1..Cardinality(owned) |->
                            [Ev("throw", InOrder(owned)[k], i, i,
                                w.balls[InOrder(owned)[k]].justThrown,
                                w.balls[InOrder(owned)[k]].owner, player.kills)
                             EXCEPT !.after = Vec(TDiv(dir.x * Px(THROW_FORCE), 1000),
                                                  TDiv(dir.y * Px(THROW_FORCE), 1000))]]]

\* ------------------------------------------------------------ gameLoop: players
\* a velocity change of dir (thousandths) * BOT_ACCELERATION * mult (thousandths)
Accel(dir, mult) == TDiv(dir * BOT_ACCELERATION * mult, 10000000)

Push(player, dir, mult) ==
    [player EXCEPT !.velocity = Vec(player.velocity.x + Accel(dir.x, mult),
                                    player.velocity.y + Accel(dir.y, mult))]

\* the first of the indices S nearest to pos (reduce with a strict <, and a
\* stable sort, keep the earliest of equidistant entries)
Nearest(S, at, pos) ==
    LET d == [j \in S |-> distance(at[j].position, pos)]
    IN  CHOOSE j \in S : \A k \in S : d[j] < d[k] \/ (d[j] = d[k] /\ j <= k)

\* a variant of Respawn that leaves the ball flag of the player as it was
RespawnKeepsBall(w, i) ==
    [w EXCEPT
        !.players[i].isAlive = TRUE,
        !.players[i].respawnTime = 0,
        !.players[i].position =
            Vec(IF w.players[i].team = "purple" THEN Frac(Px(CANVAS_WIDTH), 250)
                                                ELSE Frac(Px(CANVAS_WIDTH), 750),
                Frac(Px(CANVAS_HEIGHT), 500)),
        !.players[i].velocity = Vec(0, 0),
        !.particles = createParticles(w.particles, 15),
        !.log = Append(w.log, Ev("respawn", 0, i, 0, FALSE, NoId, w.players[i].kills))]

Respawn(w, i) ==
    [w EXCEPT
        !.players[i].isAlive = TRUE,
        !.players[i].hasBall = FALSE,
        !.players[i].respawnTime = 0,
        !.players[i].position =
            Vec(IF w.players[i].team = "purple" THEN Frac(Px(CANVAS_WIDTH), 250)
                                                ELSE Frac(Px(CANVAS_WIDTH), 750),
                Frac(Px(CANVAS_HEIGHT), 500)),
        !.players[i].velocity = Vec(0, 0),
        !.particles = createParticles(w.particles, 15),
        !.log = Append(w.log, Ev("respawn", 0, i, 0, FALSE, NoId, w.players[i].kills))]

\* the human steers toward the mouse
Steer(player, mouse) ==
    LET dx == mouse.x - player.position.x
        dy == mouse.y - player.position.y
        dist == Sqrt(dx * dx + dy * dy)
    IN  IF dist > Px(5)
        THEN [player EXCEPT !.targetVelocity =
                 Vec(TDiv(dx * Px(PLAYER_MAX_SPEED), dist),
                     TDiv(dy * Px(PLAYER_MAX_SPEED), dist))]
        ELSE [player EXCEPT !.targetVelocity = Vec(0, 0)]

\* the balls a bot of this team takes for incoming
IncomingBalls(w, team) ==
    {j \in 1..Len(w.balls) :
        /\ w.balls[j].justThrown
        /\ w.balls[j].thrownBy # NoId
        /\ LET t == FindPlayer(w.players, w.balls[j].thrownBy)
           IN  t = 0 \/ w.players[t].team # team}

Threats(w, i) ==
    {j \in IncomingBalls(w, w.players[i].team) :
        distance(w.balls[j].position, w.players[i].position) < Px(300)}

Enemies(w, i) ==
    {k \in 1..Len(w.players) :
        w.players[k].team # w.players[i].team /\ w.players[k].isAlive}

FreeBalls(w) ==
    {j \in 1..Len(w.balls) : w.balls[j].owner = NoId /\ ~w.balls[j].justThrown}

Evade(w, i, rnd) ==
    LET player == w.players[i]
        ball == w.balls[Nearest(Threats(w, i), w.balls, player.position)]
        awayDir == normalize(Vec(player.position.x - ball.position.x,
                                 player.position.y - ball.position.y))
        perpDir == Vec(-awayDir.y, awayDir.x)
        dodgeChoice == rnd.dodge[i]
        dir == Vec(TDiv(awayDir.x * 700 + perpDir.x * dodgeChoice * 300, 1000),
                   TDiv(awayDir.y * 700 + perpDir.y * dodgeChoice * 300, 1000))
    IN  [w EXCEPT
            !.players[i] = [Push(player, dir, 2200) EXCEPT
                               !.aiState = "evade", !.aiTimer = 0],
            !.log = Append(w.log, Ev("evade", 0, i, 0, FALSE, NoId, player.throwDelay))]

Chase(w, i, rnd) ==
    LET player == w.players[i]
    IN  IF FreeBalls(w) # {}
        THEN LET nearest == w.balls[Nearest(FreeBalls(w), w.balls, player.position)]
                 dir == normalize(Vec(nearest.position.x - player.position.x,
                                      nearest.position.y - player.position.y))
             IN  [w EXCEPT
                    !.players[i] = [Push(player, dir, 1200) EXCEPT !.aiState = "chase"],
                    !.log = Append(w.log,
                               Ev("chase", 0, i, 0, FALSE, NoId, player.throwDelay))]
        ELSE [w EXCEPT
                !.players[i] =
                    [(IF rnd.wander THEN Push(player, Vec(rnd.dirx, rnd.diry), 400)
                                    ELSE player) EXCEPT !.aiState = "idle"],
                !.log = Append(w.log, Ev("idle", 0, i, 0, FALSE, NoId, player.throwDelay))]

\* a variant of Attack that leaves the throw delay and the reaction timer as they
\* are after a throw
AttackNoReset(w, i, rnd) ==
    LET player == [w.players[i] EXCEPT !.throwDelay = @ - 1]
        enemies == InOrder(Enemies(w, i))
    IN  IF player.throwDelay <= 0
        THEN LET target == w.players[enemies[TDiv(rnd.pick[i] * Len(enemies), 1000) + 1]]
                 dist == distance(player.position, target.position)
                 \* leadTime = dist / THROW_FORCE; the prediction uses leadTime * 0.5
                 predictedPos ==
                     Vec(target.position.x
                           + TDiv(target.velocity.x * dist, 2 * Px(THROW_FORCE)),
                         target.position.y
                           + TDiv(target.velocity.y * dist, 2 * Px(THROW_FORCE)))
                 w1 == [w EXCEPT
                          !.players[i] = [player EXCEPT !.aiState = "attack"],
                          !.log = Append(w.log,
                              Ev("attack", 0, i, 0, FALSE, NoId, player.throwDelay))]
                 w2 == throwBall(w1, i, predictedPos)
             IN  w2
        ELSE LET idle == [player EXCEPT !.aiState = "idle"]
                 closestEnemy == w.players[Nearest(Enemies(w, i), w.players,
                                                   player.position)]
                 moved ==
                     IF ~rnd.wander THEN idle
                     ELSE IF rnd.moveChoice = 0
                          THEN Push(idle,
                                    normalize(Vec(closestEnemy.position.x - player.position.x,
                                                  closestEnemy.position.y - player.position.y)),
                                    500)
                     ELSE IF rnd.moveChoice = 1
                          THEN Push(idle,
                                    Vec(IF player.team = "purple" THEN -1000 ELSE 1000,
                                        rnd.diry),
                                    300)
                     ELSE Push(idle, Vec(rnd.dirx, rnd.diry), 300)
             IN  [w EXCEPT
                    !.players[i] = moved,
                    !.log = Append(w.log, Ev("idle", 0, i, 0, FALSE, NoId, player.throwDelay))]

\* the bot holds a ball and an enemy is alive
Attack(w, i, rnd) ==
    LET player == [w.players[i] EXCEPT !.throwDelay = @ - 1]
        enemies == InOrder(Enemies(w, i))
    IN  IF player.throwDelay <= 0
        THEN LET target == w.players[enemies[TDiv(rnd.pick[i] * Len(enemies), 1000) + 1]]
                 dist == distance(player.position, target.position)
                 \* leadTime = dist / THROW_FORCE; the prediction uses leadTime * 0.5
                 predictedPos ==
                     Vec(target.position.x
                           + TDiv(target.velocity.x * dist, 2 * Px(THROW_FORCE)),
                         target.position.y
                           + TDiv(target.velocity.y * dist, 2 * Px(THROW_FORCE)))
                 w1 == [w EXCEPT
                          !.players[i] = [player EXCEPT !.aiState = "attack"],
                          !.log = Append(w.log,
                              Ev("attack", 0, i, 0, FALSE, NoId, player.throwDelay))]
                 w2 == throwBall(w1, i, predictedPos)
             IN  [w2 EXCEPT !.players[i].throwDelay = rnd.delay,
                            !.players[i].aiTimer = 0]
        ELSE LET idle == [player EXCEPT !.aiState = "idle"]
                 closestEnemy == w.players[Nearest(Enemies(w, i), w.players,
                                                   player.position)]
                 moved ==
                     IF ~rnd.wander THEN idle
                     ELSE IF rnd.moveChoice = 0
                          THEN Push(idle,
                                    normalize(Vec(closestEnemy.position.x - player.position.x,
                                                  closestEnemy.position.y - player.position.y)),
                                    500)
                     ELSE IF rnd.moveChoice = 1
                          THEN Push(idle,
                                    Vec(IF player.team = "purple" THEN -1000 ELSE 1000,
                                        rnd.diry),
                                    300)
                     ELSE Push(idle, Vec(rnd.dirx, rnd.diry), 300)
             IN  [w EXCEPT
                    !.players[i] = moved,
                    !.log = Append(w.log, Ev("idle", 0, i, 0, FALSE, NoId, player.throwDelay))]

\* a variant of BotAI that looks for a ball to chase before it looks for threats
BotAIChaseFirst(w, i, rnd) ==
    LET w1 == [w EXCEPT !.players[i].aiTimer = @ + 1]
        player == w1.players[i]
    IN  IF ~(player.aiTimer > AI_REACTION_DELAY) THEN w1
        ELSE IF ~player.hasBall THEN Chase(w1, i, rnd)
        ELSE IF Threats(w1, i) # {} THEN Evade(w1, i, rnd)
        ELSE IF player.hasBall /\ Enemies(w1, i) # {} THEN Attack(w1, i, rnd)
        ELSE [w1 EXCEPT
                !.players[i].aiState = "idle",
                !.log = Append(w1.log, Ev("idle", 0, i, 0, FALSE, NoId, player.throwDelay))]

\* the bot's decision of one tick
BotAI(w, i, rnd) ==
    LET w1 == [w EXCEPT !.players[i].aiTimer = @ + 1]
        player == w1.players[i]
    IN  IF ~(player.aiTimer > AI_REACTION_DELAY) THEN w1
        ELSE IF Threats(w1, i) # {} THEN Evade(w1, i, rnd)
        ELSE IF ~player.hasBall THEN Chase(w1, i, rnd)
        ELSE IF player.hasBall /\ Enemies(w1, i) # {} THEN Attack(w1, i, rnd)
        ELSE [w1 EXCEPT
                !.players[i].aiState = "idle",
                !.log = Append(w1.log, Ev("idle", 0, i, 0, FALSE, NoId, player.throwDelay))]

\* easeOut(t) = 1 - (1 - t)^2, in thousandths
easeOut(t) == 1000 - TDiv((1000 - t) * (1000 - t), 1000)

\* velocity easing, speed clamp, friction and integration
Integrate(player) ==
    LET vx1 == player.velocity.x
                 + Frac(player.targetVelocity.x - player.velocity.x,
                        easeOut(MOVEMENT_SMOOTHING))
        vy1 == player.velocity.y
                 + Frac(player.targetVelocity.y - player.velocity.y,
                        easeOut(MOVEMENT_SMOOTHING))
        speed == Sqrt(vx1 * vx1 + vy1 * vy1)
        baseMaxSpeed == IF player.isPlayer THEN Px(PLAYER_MAX_SPEED) ELSE Px(BOT_MAX_SPEED)
        maxSpeed == IF player.hasAura THEN Frac(baseMaxSpeed, 1200) ELSE baseMaxSpeed
        vx2 == IF speed > maxSpeed THEN TDiv(vx1 * maxSpeed, speed) ELSE vx1
        vy2 == IF speed > maxSpeed THEN TDiv(vy1 * maxSpeed, speed) ELSE vy1
        vx3 == Frac(vx2, FRICTION)
        vy3 == Frac(vy2, FRICTION)
    IN  [player EXCEPT !.velocity = Vec(vx3, vy3),
                       !.position = Vec(player.position.x + vx3,
                                        player.position.y + vy3)]

\* the player's own half of the arena
MinX(team) == IF team = "purple" THEN Px(PLAYER_RADIUS)
                                 ELSE Px(CANVAS_WIDTH) \div 2 + Px(PLAYER_RADIUS)
MaxX(team) == IF team = "purple" THEN Px(CANVAS_WIDTH) \div 2 - Px(PLAYER_RADIUS)
                                 ELSE Px(CANVAS_WIDTH) - Px(PLAYER_RADIUS)

\* a variant of Confine that keeps a player inside the field, not inside its half
ConfineToField(player) ==
    LET p1 == IF player.position.x < Px(PLAYER_RADIUS)
              THEN [player EXCEPT !.position.x = Px(PLAYER_RADIUS),
                                  !.velocity.x = Frac(@, -500)]
              ELSE player
        p2 == IF p1.position.x > Px(CANVAS_WIDTH) - Px(PLAYER_RADIUS)
              THEN [p1 EXCEPT !.position.x = Px(CANVAS_WIDTH) - Px(PLAYER_RADIUS),
                              !.velocity.x = Frac(@, -500)]
              ELSE p1
        p3 == IF p2.position.y < Px(PLAYER_RADIUS)
              THEN [p2 EXCEPT !.position.y = Px(PLAYER_RADIUS),
                              !.velocity.y = Frac(@, -500)]
              ELSE p2
    IN  IF p3.position.y > Px(CANVAS_HEIGHT) - Px(PLAYER_RADIUS)
        THEN [p3 EXCEPT !.position.y = Px(CANVAS_HEIGHT) - Px(PLAYER_RADIUS),
                        !.velocity.y = Frac(@, -500)]
        ELSE p3

Confine(player) ==
    LET p1 == IF player.position.x < MinX(player.team)
              THEN [player EXCEPT !.position.x = MinX(player.team),
                                  !.velocity.x = Frac(@, -500)]
              ELSE player
        p2 == IF p1.position.x > MaxX(player.team)
              THEN [p1 EXCEPT !.position.x = MaxX(player.team),
                              !.velocity.x = Frac(@, -500)]
              ELSE p1
        p3 == IF p2.position.y < Px(PLAYER_RADIUS)
              THEN [p2 EXCEPT !.position.y = Px(PLAYER_RADIUS),
                              !.velocity.y = Frac(@, -500)]
              ELSE p2
    IN  IF p3.position.y > Px(CANVAS_HEIGHT) - Px(PLAYER_RADIUS)
        THEN [p3 EXCEPT !.position.y = Px(CANVAS_HEIGHT) - Px(PLAYER_RADIUS),
                        !.velocity.y = Frac(@, -500)]
        ELSE p3

\* a variant of UpdatePlayer that respawns a dead player without looking at the clock
UpdatePlayerNoClock(w, i, clock, infinite, mouse, rnd) ==
    LET player == w.players[i]
    IN  IF ~player.isAlive
        THEN IF infinite /\ player.respawnTime # 0
             THEN Respawn(w, i)
             ELSE w
        ELSE LET w1 == IF player.isPlayer
                       THEN [w EXCEPT !.players[i] = Steer(player, mouse)]
                       ELSE BotAI(w, i, rnd)
             IN  [w1 EXCEPT !.players[i] = Confine(Integrate(w1.players[i]))]

\* the body of players.forEach for player i
UpdatePlayer(w, i, clock, infinite, mouse, rnd) ==
    LET player == w.players[i]
    IN  IF ~player.isAlive
        THEN IF infinite /\ player.respawnTime # 0 /\ clock > player.respawnTime
             THEN Respawn(w, i)
             ELSE w
        ELSE LET w1 == IF player.isPlayer
                       THEN [w EXCEPT !.players[i] = Steer(player, mouse)]
                       ELSE BotAI(w, i, rnd)
             IN  [w1 EXCEPT !.players[i] = Confine(Integrate(w1.players[i]))]

RECURSIVE PlayersFrom(_, _, _, _, _, _)
PlayersFrom(w, i, clock, infinite, mouse, rnd) ==
    IF i > Len(w.players) THEN w
    ELSE PlayersFrom(UpdatePlayer(w, i, clock, infinite, mouse, rnd),
                     i + 1, clock, infinite, mouse, rnd)

\* ------------------------------------------------------------ gameLoop: balls
\* the ball follows a living owner and is released from any other
FollowOwner(w, j) ==
    LET ball == w.balls[j]
        owner == FindPlayer(w.players, ball.owner)
    IN  IF owner # 0 /\ w.players[owner].isAlive
        THEN [w EXCEPT !.balls[j].position = w.players[owner].position,
                       !.balls[j].velocity = Vec(0, 0)]
        ELSE [w EXCEPT !.balls[j].owner = NoId,
                       !.log = Append(w.log, Ev("release", j, owner, 0,
                                               ball.justThrown, ball.owner, 0))]

\* trail bookkeeping, friction and integration of a free ball
Fly(ball) ==
    LET vx == Frac(ball.velocity.x, BALL_FRICTION)
        vy == Frac(ball.velocity.y, BALL_FRICTION)
    IN  [ball EXCEPT
            !.trail = IF ball.justThrown THEN (IF @ + 1 > 15 THEN 15 ELSE @ + 1)
                                         ELSE (IF @ > 0 THEN @ - 1 ELSE 0),
            !.velocity = Vec(vx, vy),
            !.position = Vec(ball.position.x + vx, ball.position.y + vy)]

\* the four wall tests, in the order of the code; each contact clamps the position,
\* reflects the velocity with BALL_BOUNCE, clears justThrown and emits 8 particles
WallLeft(w, j) ==
    IF w.balls[j].position.x - Px(BALL_RADIUS) < 0
    THEN [w EXCEPT !.balls[j].position.x = Px(BALL_RADIUS),
                   !.balls[j].velocity.x = Frac(@, -BALL_BOUNCE),
                   !.balls[j].justThrown = FALSE,
                   !.particles = createParticles(w.particles, 8),
                   !.log = Append(w.log, Ev("wall", j, 0, 0, w.balls[j].justThrown,
                                           w.balls[j].owner, 0))]
    ELSE w

WallRight(w, j) ==
    IF w.balls[j].position.x + Px(BALL_RADIUS) > Px(CANVAS_WIDTH)
    THEN [w EXCEPT !.balls[j].position.x = Px(CANVAS_WIDTH) - Px(BALL_RADIUS),
                   !.balls[j].velocity.x = Frac(@, -BALL_BOUNCE),
                   !.balls[j].justThrown = FALSE,
                   !.particles = createParticles(w.particles, 8),
                   !.log = Append(w.log, Ev("wall", j, 0, 0, w.balls[j].justThrown,
                                           w.balls[j].owner, 0))]
    ELSE w

WallTop(w, j) ==
    IF w.balls[j].position.y - Px(BALL_RADIUS) < 0
    THEN [w EXCEPT !.balls[j].position.y = Px(BALL_RADIUS),
                   !.balls[j].velocity.y = Frac(@, -BALL_BOUNCE),
                   !.balls[j].justThrown = FALSE,
                   !.particles = createParticles(w.particles, 8),
                   !.log = Append(w.log, Ev("wall", j, 0, 0, w.balls[j].justThrown,
                                           w.balls[j].owner, 0))]
    ELSE w

\* a variant of WallBottom that leaves a lethal ball lethal
WallBottomStaysLethal(w, j) ==
    IF w.balls[j].position.y + Px(BALL_RADIUS) > Px(CANVAS_HEIGHT)
    THEN [w EXCEPT !.balls[j].position.y = Px(CANVAS_HEIGHT) - Px(BALL_RADIUS),
                   !.balls[j].velocity.y = Frac(@, -BALL_BOUNCE),
                   !.particles = createParticles(w.particles, 8),
                   !.log = Append(w.log, Ev("wall", j, 0, 0, w.balls[j].justThrown,
                                           w.balls[j].owner, 0))]
    ELSE w

WallBottom(w, j) ==
    IF w.balls[j].position.y + Px(BALL_RADIUS) > Px(CANVAS_HEIGHT)
    THEN [w EXCEPT !.balls[j].position.y = Px(CANVAS_HEIGHT) - Px(BALL_RADIUS),
                   !.balls[j].velocity.y = Frac(@, -BALL_BOUNCE),
                   !.balls[j].justThrown = FALSE,
                   !.particles = createParticles(w.particles, 8),
                   !.log = Append(w.log, Ev("wall", j, 0, 0, w.balls[j].justThrown,
                                           w.balls[j].owner, 0))]
    ELSE w

\* a variant of Settle that stops the ball and leaves its justThrown flag
SettleStaysLethal(w, j) ==
    LET ball == w.balls[j]
        speed == Sqrt(ball.velocity.x * ball.velocity.x + ball.velocity.y * ball.velocity.y)
    IN  IF speed < Px(1) \div 2
        THEN [w EXCEPT !.balls[j].velocity = Vec(0, 0),
                       !.log = IF ball.justThrown
                               THEN Append(w.log, Ev("settle", j, 0, 0, TRUE, ball.owner, 0))
                               ELSE w.log]
        ELSE w

\* a ball slower than 0.5 pixels per tick stops and is no longer lethal
Settle(w, j) ==
    LET ball == w.balls[j]
        speed == Sqrt(ball.velocity.x * ball.velocity.x + ball.velocity.y * ball.velocity.y)
    IN  IF speed < Px(1) \div 2
        THEN [w EXCEPT !.balls[j].velocity = Vec(0, 0),
                       !.balls[j].justThrown = FALSE,
                       !.log = IF ball.justThrown
                               THEN Append(w.log, Ev("settle", j, 0, 0, TRUE, ball.owner, 0))
                               ELSE w.log]
        ELSE w

\* IsHit as it would be without the comparison of the teams
IsHitAnyTeam(w, j, i, t, clock) ==
    LET isInvulnerable == w.players[i].invulnerableUntil # 0
                            /\ clock < w.players[i].invulnerableUntil
    IN  /\ t # 0
        /\ distance(w.balls[j].position, w.players[i].position)
              < Px(BALL_RADIUS) + Px(PLAYER_RADIUS)
        /\ ~isInvulnerable

\* IsHit as it would be without the invulnerability window
IsHitNoShield(w, j, i, t, clock) ==
    /\ t # 0
    /\ w.players[t].team # w.players[i].team
    /\ distance(w.balls[j].position, w.players[i].position)
          < Px(BALL_RADIUS) + Px(PLAYER_RADIUS)

\* the hit condition of ball j on player i with thrower t (0 when none is found)
IsHit(w, j, i, t, clock) ==
    LET ball == w.balls[j]
        player == w.players[i]
        isInvulnerable == player.invulnerableUntil # 0 /\ clock < player.invulnerableUntil
    IN  /\ t # 0
        /\ w.players[t].team # player.team
        /\ distance(ball.position, player.position) < Px(BALL_RADIUS) + Px(PLAYER_RADIUS)
        /\ ~isInvulnerable

\* a variant of Eliminate that gives the victim a respawn time in both modes
EliminateSchedules(w, i, t, clock, infinite) ==
    LET w1 == [w EXCEPT !.players[i].isAlive = FALSE,
                        !.players[i].respawnTime = clock + RESPAWN_TIME,
                        !.players[i].kills = 0]
    IN  [w1 EXCEPT !.players[t].kills = @ + 1,
                   !.particles = createParticles(createParticles(w.particles, 20), 10)]

\* the bookkeeping of the elimination of player i by a ball thrown by t
Eliminate(w, i, t, clock, infinite) ==
    LET w1 == [w EXCEPT !.players[i].isAlive = FALSE,
                        !.players[i].respawnTime =
                            IF infinite THEN clock + RESPAWN_TIME ELSE 0,
                        !.players[i].kills = 0]
    IN  [w1 EXCEPT !.players[t].kills = @ + 1,
                   !.particles = createParticles(createParticles(w.particles, 20), 10)]

\* the reflection of ball j off player i, damped by BALL_BOUNCE
Bounce(w, j, i) ==
    LET ball == w.balls[j]
        player == w.players[i]
        dx == ball.position.x - player.position.x
        dy == ball.position.y - player.position.y
        collisionDist == Sqrt(dx * dx + dy * dy)
        nx == TDiv(dx * 1000, collisionDist)
        ny == TDiv(dy * 1000, collisionDist)
        rvx == ball.velocity.x - player.velocity.x
        rvy == ball.velocity.y - player.velocity.y
        velocityAlongNormal == TDiv(rvx * nx + rvy * ny, 1000)
    IN  [w EXCEPT !.balls[j].velocity =
            Vec(Frac(ball.velocity.x - TDiv(2 * velocityAlongNormal * nx, 1000),
                     BALL_BOUNCE),
                Frac(ball.velocity.y - TDiv(2 * velocityAlongNormal * ny, 1000),
                     BALL_BOUNCE))]

\* Hit as it would be if the ball kept its thrower after the elimination
HitKeepsThrower(w, j, i, t, clock, infinite) ==
    LET w2 == [Bounce(Eliminate(w, i, t, clock, infinite), j, i) EXCEPT
                 !.balls[j].justThrown = FALSE]
    IN  [w2 EXCEPT !.log = Append(w.log, HitEv(j, i, t, w.balls[j].justThrown,
                                               w.balls[j].owner,
                                               Kills(w.players), Kills(w2.players)))]

\* Hit as it would be if the ball kept its flags after the elimination
HitStaysLethal(w, j, i, t, clock, infinite) ==
    LET w2 == Bounce(Eliminate(w, i, t, clock, infinite), j, i)
    IN  [w2 EXCEPT !.log = Append(w.log, HitEv(j, i, t, w.balls[j].justThrown,
                                               w.balls[j].owner,
                                               Kills(w.players), Kills(w2.players)))]

\* the elimination of player i by ball j thrown by t, and the ball's bounce off i
Hit(w, j, i, t, clock, infinite) ==
    LET w2 == [Bounce(Eliminate(w, i, t, clock, infinite), j, i) EXCEPT
                 !.balls[j].justThrown = FALSE,
                 !.balls[j].thrownBy = NoId]
    IN  [w2 EXCEPT !.log = Append(w.log, HitEv(j, i, t, w.balls[j].justThrown,
                                               w.balls[j].owner,
                                               Kills(w.players), Kills(w2.players)))]

\* CanPickup as it would be without the test of justThrown
CanPickupLethal(w, j, i) ==
    /\ w.balls[j].owner = NoId
    /\ ~w.players[i].hasBall
    /\ distance(w.balls[j].position, w.players[i].position) < Px(BALL_PICKUP_RADIUS)

\* CanPickup as it would be without the test of the owner
CanPickupOwned(w, j, i) ==
    /\ ~w.balls[j].justThrown
    /\ ~w.players[i].hasBall
    /\ distance(w.balls[j].position, w.players[i].position) < Px(BALL_PICKUP_RADIUS)

\* the pickup condition of ball j for player i
CanPickup(w, j, i) ==
    /\ ~w.balls[j].justThrown
    /\ w.balls[j].owner = NoId
    /\ ~w.players[i].hasBall
    /\ distance(w.balls[j].position, w.players[i].position) < Px(BALL_PICKUP_RADIUS)

Pickup(w, j, i) ==
    [w EXCEPT !.balls[j].owner = w.players[i].id,
              !.players[i].hasBall = TRUE,
              !.particles = createParticles(w.particles, 8),
              !.log = Append(w.log, Ev("pickup", j, i, 0, w.balls[j].justThrown,
                                      w.balls[j].owner, 0))]

\* HitTest as it would be without the gate on isAlive
HitTestUngated(w, j, i, clock, infinite) ==
    LET ball == w.balls[j]
        player == w.players[i]
        thrower == FindPlayer(w.players, ball.thrownBy)
    IN  IF ball.justThrown /\ ball.thrownBy # player.id
        THEN IF IsHit(w, j, i, thrower, clock)
             THEN Hit(w, j, i, thrower, clock, infinite)
             ELSE w
        ELSE IF player.isAlive /\ CanPickup(w, j, i) THEN Pickup(w, j, i)
        ELSE w

\* the body of the inner players.forEach for ball j and player i
HitTest(w, j, i, clock, infinite) ==
    LET ball == w.balls[j]
        player == w.players[i]
        thrower == FindPlayer(w.players, ball.thrownBy)
    IN  IF ~player.isAlive THEN w
        ELSE IF ball.justThrown /\ ball.thrownBy # player.id
             THEN IF IsHit(w, j, i, thrower, clock)
                  THEN Hit(w, j, i, thrower, clock, infinite)
                  ELSE w
        ELSE IF CanPickup(w, j, i) THEN Pickup(w, j, i)
        ELSE w

RECURSIVE HitTestsFrom(_, _, _, _, _)
HitTestsFrom(w, j, i, clock, infinite) ==
    IF i > Len(w.players) THEN w
    ELSE HitTestsFrom(HitTest(w, j, i, clock, infinite), j, i + 1, clock, infinite)

\* the body of balls.forEach for ball j
UpdateBall(w, j, clock, infinite) ==
    IF w.balls[j].owner # NoId
    THEN FollowOwner(w, j)
    ELSE LET w1 == [w EXCEPT !.balls[j] = Fly(w.balls[j])]
             w2 == Settle(WallBottom(WallTop(WallRight(WallLeft(w1, j), j), j), j), j)
         IN  HitTestsFrom(w2, j, 1, clock, infinite)

RECURSIVE BallsFrom(_, _, _, _)
BallsFrom(w, j, clock, infinite) ==
    IF j > Len(w.balls) THEN w
    ELSE BallsFrom(UpdateBall(w, j, clock, infinite), j + 1, clock, infinite)

\* ------------------------------------------------------------ gameLoop: ball-ball
\* the collision of the free balls a < b
Collide(w, a, b) ==
    LET ball1 == w.balls[a]
        ball2 == w.balls[b]
        dx == ball2.position.x - ball1.position.x
        dy == ball2.position.y - ball1.position.y
        dist == Sqrt(dx * dx + dy * dy)
        minDist == Px(BALL_RADIUS) + Px(BALL_RADIUS)
        nx == TDiv(dx * 1000, dist)
        ny == TDiv(dy * 1000, dist)
        overlap == minDist - dist
        rvx == ball1.velocity.x - ball2.velocity.x
        rvy == ball1.velocity.y - ball2.velocity.y
        velocityAlongNormal == TDiv(rvx * nx + rvy * ny, 1000)
        \* restitution 0.8: impulse = (1 + 0.8) * velocityAlongNormal / 2
        impulse == TDiv(1800 * velocityAlongNormal, 2000)
        hit == velocityAlongNormal > 0
        ix == IF hit THEN TDiv(impulse * nx, 1000) ELSE 0
        iy == IF hit THEN TDiv(impulse * ny, 1000) ELSE 0
        p1 == Vec(ball1.position.x - TDiv(nx * overlap, 2000),
                  ball1.position.y - TDiv(ny * overlap, 2000))
        p2 == Vec(ball2.position.x + TDiv(nx * overlap, 2000),
                  ball2.position.y + TDiv(ny * overlap, 2000))
        v1 == Vec(ball1.velocity.x - ix, ball1.velocity.y - iy)
        v2 == Vec(ball2.velocity.x + ix, ball2.velocity.y + iy)
    IN  IF dist < minDist /\ dist > 0
        THEN [w EXCEPT
                !.balls[a].position = p1,
                !.balls[b].position = p2,
                !.balls[a].velocity = v1,
                !.balls[b].velocity = v2,
                !.particles =
                    IF hit /\ velocityAlongNormal > Px(3)
                    THEN createParticles(w.particles, velocityAlongNormal \div Px(2))
                    ELSE w.particles,
                !.log = Append(w.log,
                    [Ev("collide", a, 0, b, ball1.justThrown, ball1.owner, 0) EXCEPT
                        !.before = <<ball1.position, ball1.velocity,
                                     ball2.position, ball2.velocity>>,
                        !.after = <<p1, v1, p2, v2>>])]
        ELSE w

RECURSIVE CollideFrom(_, _, _)
CollideFrom(w, a, b) ==
    IF a > Len(w.balls) THEN w
    ELSE IF w.balls[a].owner # NoId \/ b > Len(w.balls) THEN CollideFrom(w, a + 1, a + 2)
    ELSE IF w.balls[b].owner # NoId THEN CollideFrom(w, a, b + 1)
    ELSE CollideFrom(Collide(w, a, b), a, b + 1)

\* ------------------------------------------------------------ gameLoop: the rest
\* the human's invulnerability window is set up in the first three seconds
Shield(w, clock, start) ==
    LET human == FindHuman(w.players)
    IN  IF clock - start < 3000 /\ human # 0 /\ w.players[human].invulnerableUntil = 0
        THEN [w EXCEPT !.players[human].invulnerableUntil = start + 3000]
        ELSE w

\* a variant of Aura that marks every living player with the most kills
AuraEveryTopKiller(w) ==
    LET alive == {k \in 1..Len(w.players) : w.players[k].isAlive}
        maxKills == IF alive = {} THEN 0
                    ELSE CHOOSE m \in {w.players[k].kills : k \in alive} \cup {0} :
                            \A k \in alive : w.players[k].kills <= m
        topKillers == {k \in alive : w.players[k].kills = maxKills}
    IN  [w EXCEPT !.players =
            [k \in 1..Len(w.players) |->
                [w.players[k] EXCEPT !.hasAura = maxKills > 0 /\ k \in topKillers]]]

\* the aura goes to a living player with the most kills
Aura(w) ==
    LET alive == {k \in 1..Len(w.players) : w.players[k].isAlive}
        maxKills == IF alive = {} THEN 0
                    ELSE CHOOSE m \in {w.players[k].kills : k \in alive} \cup {0} :
                            \A k \in alive : w.players[k].kills <= m
        cleared == [k \in 1..Len(w.players) |-> [w.players[k] EXCEPT !.hasAura = FALSE]]
        topKillers == {k \in alive : w.players[k].kills = maxKills}
        holders == {k \in 1..Len(cleared) : cleared[k].hasAura}
        currentAuraHolder == IF holders = {} THEN 0 ELSE Min(holders)
        auraTarget == IF currentAuraHolder # 0 /\ currentAuraHolder \in topKillers
                      THEN currentAuraHolder
                      ELSE Min(topKillers)
    IN  IF maxKills > 0 /\ topKillers # {}
        THEN [w EXCEPT !.players = [cleared EXCEPT ![auraTarget].hasAura = TRUE]]
        ELSE [w EXCEPT !.players = cleared]

Alive(ps, team) == Cardinality({k \in 1..Len(ps) : ps[k].team = team /\ ps[k].isAlive})

\* a variant of IsOver that ends the match in both modes on the fixed-round condition
IsOverAnyMode(ps, infinite) ==
    LET human == FindHuman(ps)
        playerAlive == IF human # 0 THEN ps[human].isAlive ELSE FALSE
    IN  Alive(ps, "purple") = 0 \/ Alive(ps, "blue") = 0 \/ ~playerAlive

\* a variant of IsOver that ends an infinite match when a team has no living player
IsOverOnWipe(ps, infinite) ==
    LET human == FindHuman(ps)
        playerAlive == IF human # 0 THEN ps[human].isAlive ELSE FALSE
    IN  IF ~infinite
        THEN Alive(ps, "purple") = 0 \/ Alive(ps, "blue") = 0 \/ ~playerAlive
        ELSE Alive(ps, "purple") = 0 \/ Alive(ps, "blue") = 0

\* the match is over at the end of this gameLoop
IsOver(ps, infinite) ==
    LET human == FindHuman(ps)
        playerAlive == IF human # 0 THEN ps[human].isAlive ELSE FALSE
    IN  IF ~infinite
        THEN Alive(ps, "purple") = 0 \/ Alive(ps, "blue") = 0 \/ ~playerAlive
        ELSE ~playerAlive

\* every particle ages by one and is removed at life 0
Age(ptcl) ==
    LET aged == [k \in 1..Len(ptcl) |-> ptcl[k] - 1]
    IN  SelectSeq(aged, LAMBDA life : life > 0)

\* the simulation phases of one gameLoop, up to the score
Step(w, clock, start, infinite, mouse, rnd) ==
    CollideFrom(
        BallsFrom(
            PlayersFrom(Aura(Shield(w, clock, start)), 1, clock, infinite, mouse, rnd),
            1, clock, infinite),
        1, 2)

\* a variant of Outcome that requests the next frame even when the match is over
OutcomeKeepsFrame(clock, rnd) ==
    LET w == Step([players |-> players, balls |-> balls, particles |-> particles,
                   log |-> <<>>],
                  clock, gameStartTime, infiniteMode, mousePosition, rnd)
        over == IsOver(w.players, infiniteMode)
    IN  [players |-> w.players,
         balls |-> w.balls,
         log |-> w.log,
         score |-> [purple |-> Alive(w.players, "purple"),
                    blue |-> Alive(w.players, "blue")],
         gameState |-> IF over THEN "results" ELSE "playing",
         particles |-> IF over THEN w.particles ELSE Age(w.particles),
         rafScheduled |-> TRUE]

\* what one run of gameLoop at time clock with the random draws rnd leaves behind
Outcome(clock, rnd) ==
    LET w == Step([players |-> players, balls |-> balls, particles |-> particles,
                   log |-> <<>>],
                  clock, gameStartTime, infiniteMode, mousePosition, rnd)
        over == IsOver(w.players, infiniteMode)
    IN  [players |-> w.players,
         balls |-> w.balls,
         log |-> w.log,
         score |-> [purple |-> Alive(w.players, "purple"),
                    blue |-> Alive(w.players, "blue")],
         gameState |-> IF over THEN "results" ELSE "playing",
         particles |-> IF over THEN w.particles ELSE Age(w.particles),
         rafScheduled |-> ~over]

\* one run of gameLoop
gameLoop(clock, rnd) ==
    \E r \in {Outcome(clock, rnd)} :
        /\ players' = r.players
        /\ balls' = r.balls
        /\ log' = r.log
        /\ score' = r.score
        /\ gameState' = r.gameState
        /\ particles' = r.particles
        /\ rafScheduled' = r.rafScheduled
        /\ frame' = frame + 1
        /\ last' = "gameLoop"

\* a variant of playerWon that looks at the score of the human's team only
playerWonByTeam ==
    LET human == FindHuman(players)
    IN  human # 0 /\ score[players[human].team] > 0

\* the outcome the results screen shows: victory or defeat
playerWon ==
    LET human == FindHuman(players)
    IN  human # 0 /\ players[human].isAlive /\ score[players[human].team] > 0

\* ------------------------------------------------------------ inputs
\* the team sizes the model starts matches with (the menu offers 1..5)
TeamSizes == {1, 2}
\* the team sizes initGame is called with when the caller is not the menu
AskedSizes == {-1, 0, 1}
\* (Math.random() - 0.5) * 80 of initGame, in hundredths of a pixel
XOffsets == {0}
\* Math.random() * 180 + 60 of initGame
ThrowDelays == {60}
\* Math.random() * 240 + 90 after a throw
NextDelays == {90}
\* where the mouse goes and where the human clicks
MousePoints == {Vec(Px(120), Px(50))}
\* the clicks of the human: after how many gameLoop runs, and where
Clicks == {[frame |-> 1, pos |-> Vec(Px(60), Px(50))],
           [frame |-> 11, pos |-> Vec(Px(100), Px(95))],
           [frame |-> 72, pos |-> Vec(Px(60), Px(50))],
           [frame |-> 72, pos |-> Vec(Px(80), Px(90))],
           [frame |-> 75, pos |-> Vec(Px(60), Px(50))],
           [frame |-> 77, pos |-> Vec(Px(60), Px(50))]}
\* the gameLoop runs after which the human moves the mouse, and in which an idle
\* bot's Math.random() comes out below its wander threshold
MoveFrames == {84}
WanderFrames == {86}
\* the gameLoop runs after which the frame clock may pause
StallFrames == {7, 74}
\* the random direction of a wandering bot, and its moveChoice class
WanderDraws == {[moveChoice |-> 0, dirx |-> 0, diry |-> 0],
                [moveChoice |-> 1, dirx |-> 0, diry |-> 500],
                [moveChoice |-> 2, dirx |-> -600, diry |-> 800]}
\* milliseconds between two animation frames, and the length of a pause of the
\* frame clock (a hidden tab)
FrameMs == 16
StallMs == 5000
\* the gameLoop runs after which the frame clock may pause for one frame less
ShortStallFrames == {80}
\* the lengths of the pauses that may follow run f
StallLengths(f) ==
    (IF f \in StallFrames THEN {StallMs} ELSE {})
        \cup (IF f \in ShortStallFrames THEN {StallMs - FrameMs} ELSE {})

InitDraws(size, playerTeam) ==
    LET human == (IF playerTeam = "purple" THEN 0 ELSE size) + size \div 2 + 1
    IN  {[xoff |-> xo, delay |-> dl] :
            xo \in [1..(2 * size) -> XOffsets],
            dl \in {d \in [1..(2 * size) -> ThrowDelays] :
                      human \in DOMAIN d => d[human] = Min(ThrowDelays)}}

\* the bots that may throw, and those that may have to dodge, in the next gameLoop
MayThrow ==
    {i \in 1..Len(players) :
        /\ ~players[i].isPlayer /\ players[i].isAlive /\ players[i].hasBall
        /\ players[i].aiTimer >= AI_REACTION_DELAY /\ players[i].throwDelay <= 1}

MayDodge ==
    {i \in 1..Len(players) :
        /\ ~players[i].isPlayer /\ players[i].isAlive
        /\ players[i].aiTimer >= AI_REACTION_DELAY
        /\ \/ \E k \in MayThrow : players[k].team # players[i].team
           \/ \E j \in 1..Len(balls) : balls[j].justThrown}

\* the Math.random() draws of one gameLoop: per bot the dodge side and the target
\* pick (a fraction in thousandths), and the wander draws shared by the bots
RandomDraws ==
    {[dodge |-> d, pick |-> p, wander |-> wd, moveChoice |-> m.moveChoice,
      dirx |-> m.dirx, diry |-> m.diry, delay |-> nd] :
        d \in {f \in [1..Len(players) -> {1, -1}] :
                  \A i \in 1..Len(players) : i \notin MayDodge => f[i] = 1},
        p \in {f \in [1..Len(players) -> {0, 999}] :
                  \A i \in 1..Len(players) : i \notin MayThrow => f[i] = 0},
        wd \in (IF frame \in WanderFrames THEN BOOLEAN ELSE {FALSE}),
        m \in (IF frame \in WanderFrames THEN WanderDraws
               ELSE {[moveChoice |-> 0, dirx |-> 0, diry |-> 0]}),
        nd \in NextDelays}

\* ------------------------------------------------------------ actions
Init ==
    /\ gameState = "menu"
    /\ infiniteMode = FALSE
    /\ teamSize = 5
    /\ score = [purple |-> 5, blue |-> 5]
    /\ mousePosition = Vec(0, 0)
    /\ players = <<>>
    /\ balls = <<>>
    /\ particles = <<>>
    /\ gameStartTime = 0
    /\ rafScheduled = FALSE
    /\ effectPending = FALSE
    /\ now = 0
    /\ frame = 0
    /\ last = "mount"
    /\ log = <<>>

\* a team-size button of the menu
SetTeamSize(size) ==
    /\ gameState = "menu"
    /\ teamSize' = size
    /\ last' = "setTeamSize"
    /\ UNCHANGED <<gameState, infiniteMode, score, mousePosition, players, balls,
                   particles, gameStartTime, rafScheduled, effectPending, now, frame, log>>

\* a variant of initGame that leaves the particle list as it was
initGameKeepsParticles(infinite, playerTeam, draw) ==
    /\ teamSize \in TeamSizes \cup AskedSizes
    /\ players' = NewPlayers(teamSize, playerTeam, draw)
    /\ balls' = NewBalls(players')
    /\ particles' = particles
    /\ now' = 0
    /\ gameStartTime' = now'
    /\ infiniteMode' = infinite
    /\ score' = [purple |-> teamSize, blue |-> teamSize]
    /\ gameState' = "playing"
    /\ effectPending' = TRUE
    /\ frame' = 0
    /\ last' = "initGame"
    /\ log' = <<>>
    /\ UNCHANGED <<teamSize, mousePosition, rafScheduled>>

\* initGame(infinite, teamSize); the clock origin is moved to the match start
initGame(infinite, playerTeam, draw) ==
    /\ teamSize \in TeamSizes \cup AskedSizes
    /\ players' = NewPlayers(teamSize, playerTeam, draw)
    /\ balls' = NewBalls(players')
    /\ particles' = <<>>
    /\ now' = 0
    /\ gameStartTime' = now'
    /\ infiniteMode' = infinite
    /\ score' = [purple |-> teamSize, blue |-> teamSize]
    /\ gameState' = "playing"
    /\ effectPending' = TRUE
    /\ frame' = 0
    /\ last' = "initGame"
    /\ log' = <<>>
    /\ UNCHANGED <<teamSize, mousePosition, rafScheduled>>

\* Start Game and Infinite Mode of the menu
StartGame(infinite, playerTeam, draw) ==
    /\ gameState = "menu"
    /\ initGame(infinite, playerTeam, draw)

\* Play Again of the results screen
PlayAgain(playerTeam, draw) ==
    /\ gameState = "results"
    /\ initGame(infiniteMode, playerTeam, draw)

\* Main Menu of the results screen
MainMenu ==
    /\ gameState = "results"
    /\ gameState' = "menu"
    /\ last' = "mainMenu"
    /\ UNCHANGED <<infiniteMode, teamSize, score, mousePosition, players, balls,
                   particles, gameStartTime, rafScheduled, effectPending, now, frame, log>>

\* the game-loop effect after a render that changed gameState, infiniteMode or
\* mousePosition: the cleanup cancels the pending frame, the body calls gameLoop
EffectRun(rnd) ==
    /\ effectPending
    /\ gameState = "playing"
    /\ gameLoop(now, rnd)
    /\ effectPending' = FALSE
    /\ UNCHANGED <<infiniteMode, teamSize, mousePosition, gameStartTime, now>>

\* the requestAnimationFrame callback
Frame(rnd) ==
    /\ rafScheduled
    /\ ~effectPending
    /\ gameState = "playing"
    /\ frame < MaxTicks
    /\ now' = now + FrameMs
    /\ gameLoop(now', rnd)
    /\ UNCHANGED <<infiniteMode, teamSize, mousePosition, gameStartTime, effectPending>>

\* the frame clock pauses: time passes and no callback runs
Stall(ms) ==
    /\ gameState = "playing"
    /\ ~effectPending
    /\ ms \in StallLengths(frame)
    /\ now - gameStartTime < StallMs - FrameMs
    /\ now' = now + ms
    /\ last' = "stall"
    /\ UNCHANGED <<gameState, infiniteMode, teamSize, score, mousePosition, players,
                   balls, particles, gameStartTime, rafScheduled, effectPending, frame, log>>

\* handleMouseMove
MouseMove(pos) ==
    /\ gameState = "playing"
    /\ ~effectPending
    /\ frame \in MoveFrames
    /\ mousePosition' = pos
    /\ effectPending' = TRUE
    /\ last' = "mouseMove"
    /\ UNCHANGED <<gameState, infiniteMode, teamSize, score, players, balls, particles,
                   gameStartTime, rafScheduled, now, frame, log>>

\* what handleCanvasClick leaves behind
Clicked(clickPos) ==
    LET humans == {i \in 1..Len(players) : players[i].isPlayer /\ players[i].isAlive}
        w == [players |-> players, balls |-> balls, particles |-> particles,
              log |-> <<>>]
    IN  IF humans = {} \/ ~players[Min(humans)].hasBall
        THEN w
        ELSE LET i == Min(humans)
                 clicked == {k \in 1..Len(players) :
                                /\ players[k].team # players[i].team
                                /\ players[k].isAlive
                                /\ distance(players[k].position, clickPos)
                                     < Px(PLAYER_RADIUS) + Px(20)}
                 target == IF clicked # {} THEN players[Min(clicked)].position
                                           ELSE clickPos
             IN  throwBall(w, i, target)

\* handleCanvasClick
Click(clickPos) ==
    /\ gameState = "playing"
    /\ ~effectPending
    /\ [frame |-> frame, pos |-> clickPos] \in Clicks
    /\ \E r \in {Clicked(clickPos)} :
          /\ players' = r.players
          /\ balls' = r.balls
          /\ particles' = r.particles
          /\ log' = r.log
    /\ last' = "click"
    /\ UNCHANGED <<gameState, infiniteMode, teamSize, score, mousePosition,
                   gameStartTime, rafScheduled, effectPending, now, frame>>

Next ==
    \/ \E size \in TeamSizes : SetTeamSize(size)
    \/ \E infinite \in BOOLEAN, playerTeam \in Teams :
          \E draw \in InitDraws(teamSize, playerTeam) : StartGame(infinite, playerTeam, draw)
    \/ \E playerTeam \in Teams :
          \E draw \in InitDraws(teamSize, playerTeam) : PlayAgain(playerTeam, draw)
    \/ MainMenu
    \/ \E rnd \in RandomDraws : EffectRun(rnd)
    \/ \E rnd \in RandomDraws : Frame(rnd)
    \/ \E ms \in {StallMs, StallMs - FrameMs} : Stall(ms)
    \/ \E pos \in MousePoints : MouseMove(pos)
    \/ \E clickPos \in {c.pos : c \in Clicks} : Click(clickPos)

Spec == Init /\ [][Next]_vars

\* initGame called with a team size of the caller's choice, and the frames that follow
CallNext ==
    \/ \E size \in AskedSizes : SetTeamSize(size)
    \/ \E infinite \in BOOLEAN, playerTeam \in Teams :
          \E draw \in InitDraws(teamSize, playerTeam) : StartGame(infinite, playerTeam, draw)
    \/ \E playerTeam \in Teams :
          \E draw \in InitDraws(teamSize, playerTeam) : PlayAgain(playerTeam, draw)
    \/ MainMenu
    \/ \E rnd \in RandomDraws : EffectRun(rnd)
    \/ \E rnd \in RandomDraws : Frame(rnd)

CallSpec == Init /\ [][CallNext]_vars

\* Two free balls in flight toward each other in a match of one against one, one
\* gameLoop before the last: along direction dir (thousandths), gap apart, each with
\* speed speed, around the middle of the field; the balls of lethal are as their
\* owners threw them; the players hold no ball.
FlightDirs == {Vec(1000, 0), Vec(600, 800), Vec(0, 1000)}
FlightSpeeds == {Px(1) \div 2, Px(4), Px(8), Px(10), Px(12), Px(16)}
FlightGaps == {Px(10), 2 * Frac(Px(10), BALL_FRICTION), Px(24), Px(30), Px(40)}

HeadOnBalls(ps, dir, gap, speed, lethal) ==
    LET centre == Vec(Px(CANVAS_WIDTH) \div 2, Px(CANVAS_HEIGHT) \div 2)
        half == Vec(TDiv(dir.x * gap, 2000), TDiv(dir.y * gap, 2000))
        v == Vec(TDiv(dir.x * speed, 1000), TDiv(dir.y * speed, 1000))
    IN  << [NewBall(ps[1]) EXCEPT !.owner = NoId,
                                  !.position = Vec(centre.x - half.x, centre.y - half.y),
                                  !.velocity = v,
                                  !.justThrown = 1 \in lethal,
                                  !.thrownBy = IF 1 \in lethal THEN ps[1].id ELSE NoId],
           [NewBall(ps[2]) EXCEPT !.owner = NoId,
                                  !.position = Vec(centre.x + half.x, centre.y + half.y),
                                  !.velocity = Vec(-v.x, -v.y),
                                  !.justThrown = 2 \in lethal,
                                  !.thrownBy = IF 2 \in lethal THEN ps[2].id ELSE NoId] >>

FlightInit ==
    /\ gameState = "playing"
    /\ infiniteMode = FALSE
    /\ teamSize = 1
    /\ score = [purple |-> 1, blue |-> 1]
    /\ mousePosition = Vec(0, 0)
    /\ \E draw \in InitDraws(1, "blue") :
          players = [k \in 1..2 |->
                        [NewPlayers(1, "blue", draw)[k] EXCEPT !.hasBall = FALSE]]
    /\ \E dir \in FlightDirs, gap \in FlightGaps, speed \in FlightSpeeds :
          \E lethal \in SUBSET {1, 2} :
              balls = HeadOnBalls(players, dir, gap, speed, lethal)
    /\ particles = <<>>
    /\ gameStartTime = 0
    /\ rafScheduled = TRUE
    /\ effectPending = FALSE
    /\ now = (MaxTicks - 1) * FrameMs
    /\ frame = MaxTicks - 1
    /\ last = "gameLoop"
    /\ log = <<>>

FlightNext == \E rnd \in RandomDraws : Frame(rnd)

FlightSpec == FlightInit /\ [][FlightNext]_vars

\* A thrown ball and a second free ball ahead of it on its path, in a match of one
\* against one that has ThrowTicks runs of gameLoop left: ball 1 flies with speed s1
\* along dir (thousandths), ball 2 lies gap further along dir with speed s2 in the
\* same direction; the balls of lethal are as the first player threw them; the
\* players hold no ball. The frame clock then keeps calling gameLoop.
ThrowTicks == 70
ThrowDirs == {Vec(1000, 0), Vec(0, 1000), Vec(-600, -800)}
ThrowSpeeds == {Px(THROW_FORCE), Px(12)}
AheadSpeeds == {0, Px(1)}
ThrowGap == Px(30)

ThrownBalls(ps, dir, s1, s2, lethal) ==
    LET centre == Vec(Px(CANVAS_WIDTH) \div 2, Px(CANVAS_HEIGHT) \div 2)
        half == Vec(TDiv(dir.x * ThrowGap, 2000), TDiv(dir.y * ThrowGap, 2000))
    IN  << [NewBall(ps[1]) EXCEPT !.owner = NoId,
                                  !.position = Vec(centre.x - half.x, centre.y - half.y),
                                  !.velocity = Vec(TDiv(dir.x * s1, 1000),
                                                   TDiv(dir.y * s1, 1000)),
                                  !.justThrown = 1 \in lethal,
                                  !.thrownBy = IF 1 \in lethal THEN ps[1].id ELSE NoId],
           [NewBall(ps[2]) EXCEPT !.owner = NoId,
                                  !.position = Vec(centre.x + half.x, centre.y + half.y),
                                  !.velocity = Vec(TDiv(dir.x * s2, 1000),
                                                   TDiv(dir.y * s2, 1000)),
                                  !.justThrown = 2 \in lethal,
                                  !.thrownBy = IF 2 \in lethal THEN ps[1].id ELSE NoId] >>

ThrownInit ==
    /\ gameState = "playing"
    /\ infiniteMode = FALSE
    /\ teamSize = 1
    /\ score = [purple |-> 1, blue |-> 1]
    /\ mousePosition = Vec(0, 0)
    /\ \E draw \in InitDraws(1, "blue") :
          players = [k \in 1..2 |->
                        [NewPlayers(1, "blue", draw)[k] EXCEPT !.hasBall = FALSE]]
    /\ \E dir \in ThrowDirs, s1 \in ThrowSpeeds, s2 \in AheadSpeeds :
          \E lethal \in (SUBSET {1, 2}) \ {{}} :
              balls = ThrownBalls(players, dir, s1, s2, lethal)
    /\ particles = <<>>
    /\ gameStartTime = 0
    /\ rafScheduled = TRUE
    /\ effectPending = FALSE
    /\ now = (MaxTicks - ThrowTicks) * FrameMs
    /\ frame = MaxTicks - ThrowTicks
    /\ last = "gameLoop"
    /\ log = <<>>

\* a frame is requested and the match is running: the guard of Frame
FrameReady == rafScheduled /\ ~effectPending /\ gameState = "playing" /\ frame < MaxTicks

\* the frame clock calls the gameLoop that was requested
Tick == FrameReady /\ frame' = frame + 1

\* every gameLoop requests the next frame, and the browser calls it
ThrowSpec == ThrownInit /\ [][FlightNext]_vars /\ WF_frame(Tick)

\* A free ball at rest against a wall and a second free ball flying at it along the
\* normal of that wall, in a match of one against one that has WallTicks runs of
\* gameLoop left: ball 2 lies one radius from the wall that normal n points to, where
\* a slow ball stops after the wall test has clamped it; ball 1 is gap away from it
\* with speed speed toward the wall; the players hold no ball.
WallTicks == 3
WallNormals == {Vec(-1, 0), Vec(1, 0), Vec(0, -1), Vec(0, 1)}
WallGaps == {Px(20), Px(30)}
WallSpeeds == {Px(6), Px(12), Px(THROW_FORCE)}

WallBalls(ps, n, gap, speed, lethal) ==
    LET atWall == Vec(Px(CANVAS_WIDTH) \div 2
                        + n.x * (Px(CANVAS_WIDTH) \div 2 - Px(BALL_RADIUS)),
                      Px(CANVAS_HEIGHT) \div 2
                        + n.y * (Px(CANVAS_HEIGHT) \div 2 - Px(BALL_RADIUS)))
    IN  << [NewBall(ps[1]) EXCEPT !.owner = NoId,
                                  !.position = Vec(atWall.x - n.x * gap,
                                                   atWall.y - n.y * gap),
                                  !.velocity = Vec(n.x * speed, n.y * speed),
                                  !.justThrown = lethal,
                                  !.thrownBy = IF lethal THEN ps[1].id ELSE NoId],
           [NewBall(ps[2]) EXCEPT !.owner = NoId,
                                  !.position = atWall,
                                  !.velocity = Vec(0, 0)] >>

WallInit ==
    /\ gameState = "playing"
    /\ infiniteMode = FALSE
    /\ teamSize = 1
    /\ score = [purple |-> 1, blue |-> 1]
    /\ mousePosition = Vec(0, 0)
    /\ \E draw \in InitDraws(1, "blue") :
          players = [k \in 1..2 |->
                        [NewPlayers(1, "blue", draw)[k] EXCEPT !.hasBall = FALSE]]
    /\ \E n \in WallNormals, gap \in WallGaps, speed \in WallSpeeds :
          \E lethal \in BOOLEAN :
              balls = WallBalls(players, n, gap, speed, lethal)
    /\ particles = <<>>
    /\ gameStartTime = 0
    /\ rafScheduled = TRUE
    /\ effectPending = FALSE
    /\ now = (MaxTicks - WallTicks) * FrameMs
    /\ frame = MaxTicks - WallTicks
    /\ last = "gameLoop"
    /\ log = <<>>

WallSpec == WallInit /\ [][FlightNext]_vars

\* ------------------------------------------------------------ part_001
\* The variant of the game that keeps players and balls in React state
\* (src/unnamed/part_001).  A run of its gameLoop reads the players and balls of the
\* render it was created in, and changes them by queueing state updates: setPlayers
\* and setBalls with a value, and throwBallAt with updater functions.  React applies
\* the queued updates of a state in the order of the calls when it renders next.
PLAYER_SPEED == 5
BALL_DAMPING == 980
THROW_FORCE_STATE == 15
RESPAWN_TIME_STATE == 10000
PLAYER_ACCELERATION_STATE == 150
TEAM_PLAYERS == 5

\* gameLoop runs per match of the variant
StateTicks == 8
\* the throws the bots draw in one run of gameLoop (Math.random() < 0.02)
MaxBotThrows == 1
\* the roster places of the bots that may draw a throw: the first purple bot and the
\* second blue bot
StateThrowerPlaces == {1, TEAM_PLAYERS + 2}
\* Math.random() of the target choice, in thousandths
StatePicks == {0, 999}
\* (Math.random() - 0.5) * 100 of initGame, in hundredths of a pixel
StateXOffsets == {0}
\* the runs of gameLoop after which the human clicks, and where
StateClickFrames == {1}
StateClickPoints == {Vec(Px(48), Px(80)), Vec(Px(140), Px(80))}
\* no mouse button is held while a gameLoop runs
isMouseDown == FALSE

MathMax(a, b) == IF a > b THEN a ELSE b
MathMin(a, b) == IF a < b THEN a ELSE b
MathAbs(a) == IF a < 0 THEN -a ELSE a

\* initGame: five players a team, each with its ball
StatePlayers(playerTeam, xoff) ==
    [k \in 1..2 * TEAM_PLAYERS |->
        LET teamColor == IF k <= TEAM_PLAYERS THEN "purple" ELSE "blue"
            i == (k - 1) % TEAM_PLAYERS
            xBase == IF teamColor = "purple" THEN Frac(Px(CANVAS_WIDTH), 200)
                                             ELSE Frac(Px(CANVAS_WIDTH), 800)
        IN  [ id |-> PlayerId(teamColor, i),
              position |-> Vec(xBase + xoff[k],
                               Frac(Px(CANVAS_HEIGHT), 300) + i * Px(100)),
              velocity |-> Vec(0, 0),
              team |-> teamColor,
              isAlive |-> TRUE,
              isPlayer |-> (teamColor = playerTeam /\ i = 2),
              hasBall |-> TRUE,
              respawnTime |-> 0 ]]

StateBalls(ps) ==
    [k \in 1..Len(ps) |->
        [ id |-> BallId(ps[k].team, ps[k].id[2]),
          position |-> ps[k].position,
          velocity |-> Vec(0, 0),
          justThrown |-> FALSE,
          thrownBy |-> NoId,
          owner |-> ps[k].id ]]

\* the updater throwBallAt queues for the balls
throwBallAt(prevBalls, player, target) ==
    LET dir == normalize(Vec(target.x - player.position.x,
                             target.y - player.position.y))
    IN  [j \in 1..Len(prevBalls) |->
            IF prevBalls[j].owner = player.id
            THEN [prevBalls[j] EXCEPT
                    !.owner = NoId,
                    !.velocity = Vec(TDiv(dir.x * Px(THROW_FORCE_STATE), 1000),
                                     TDiv(dir.y * Px(THROW_FORCE_STATE), 1000)),
                    !.justThrown = TRUE,
                    !.thrownBy = player.id]
            ELSE prevBalls[j]]

\* the updater throwBallAt queues for the players
throwBallAtPlayers(prevPlayers, player) ==
    [k \in 1..Len(prevPlayers) |->
        IF prevPlayers[k].id = player.id
        THEN [prevPlayers[k] EXCEPT !.hasBall = FALSE]
        ELSE prevPlayers[k]]

\* a queued update: an updater of throwBallAt, or a value
Updater(player, target) == [fn |-> "throwBallAt", player |-> player, target |-> target,
                            value |-> <<>>]
Value(v) == [fn |-> "set", player |-> <<>>, target |-> <<>>, value |-> v]

\* React applies the queued updates of the balls one after the other
RECURSIVE ApplyBallUpdates(_, _)
ApplyBallUpdates(queue, prev) ==
    IF queue = <<>> THEN prev
    ELSE LET u == Head(queue)
         IN  ApplyBallUpdates(Tail(queue),
                              IF u.fn = "set" THEN u.value
                              ELSE throwBallAt(prev, u.player, u.target))

\* React applies the queued updates of the players one after the other
RECURSIVE ApplyPlayerUpdates(_, _)
ApplyPlayerUpdates(queue, prev) ==
    IF queue = <<>> THEN prev
    ELSE LET u == Head(queue)
         IN  ApplyPlayerUpdates(Tail(queue),
                                IF u.fn = "set" THEN u.value
                                ELSE throwBallAtPlayers(prev, u.player))

\* players.map of gameLoop: the new velocity of a living player
StateVelocity(player, bs, mouse) ==
    LET v == player.velocity
        slowed == Vec(Frac(v.x, 850), Frac(v.y, 850))
    IN  IF player.isPlayer /\ isMouseDown
        THEN LET dir == normalize(Vec(mouse.x - player.position.x,
                                      mouse.y - player.position.y))
                 tx == TDiv(dir.x * Px(PLAYER_SPEED), 1000)
                 ty == TDiv(dir.y * Px(PLAYER_SPEED), 1000)
             IN  Vec(v.x + Frac(tx - v.x, PLAYER_ACCELERATION_STATE),
                     v.y + Frac(ty - v.y, PLAYER_ACCELERATION_STATE))
        ELSE IF ~player.isPlayer
        THEN LET S == {j \in 1..Len(bs) : bs[j].owner = NoId \/ bs[j].owner = player.id}
             IN  IF /\ S # {}
                    /\ ~player.hasBall
                    /\ distance(bs[Nearest(S, bs, player.position)].position,
                                player.position) > Px(50)
                 THEN LET nearestBall == bs[Nearest(S, bs, player.position)]
                          dir == normalize(Vec(nearestBall.position.x - player.position.x,
                                               nearestBall.position.y - player.position.y))
                          tx == TDiv(dir.x * Px(PLAYER_SPEED) * 600, 1000000)
                          ty == TDiv(dir.y * Px(PLAYER_SPEED) * 600, 1000000)
                      IN  Vec(v.x + Frac(tx - v.x, 100), v.y + Frac(ty - v.y, 100))
                 ELSE slowed
        ELSE slowed

\* players.map of gameLoop: one player
StatePlayer(player, bs, mouse, clock, infinite) ==
    IF ~player.isAlive
    THEN IF infinite /\ player.respawnTime # 0 /\ clock > player.respawnTime
         THEN [player EXCEPT
                 !.isAlive = TRUE,
                 !.hasBall = FALSE,
                 !.respawnTime = 0,
                 !.position = Vec(IF player.team = "purple"
                                  THEN Frac(Px(CANVAS_WIDTH), 200)
                                  ELSE Frac(Px(CANVAS_WIDTH), 800),
                                  Px(CANVAS_HEIGHT) \div 2)]
         ELSE player
    ELSE LET v == StateVelocity(player, bs, mouse)
             half == IF player.team = "purple"
                     THEN Px(CANVAS_WIDTH) \div 2 - Px(PLAYER_RADIUS)
                     ELSE Px(CANVAS_WIDTH) \div 2 + Px(PLAYER_RADIUS)
         IN  [player EXCEPT
                 !.velocity = v,
                 !.position =
                     Vec(MathMax(Px(PLAYER_RADIUS), MathMin(half, player.position.x + v.x)),
                         MathMax(Px(PLAYER_RADIUS),
                                 MathMin(Px(CANVAS_HEIGHT) - Px(PLAYER_RADIUS),
                                         player.position.y + v.y)))]

\* the living players of the other team, in roster order
StateEnemies(ps, i) ==
    InOrder({e \in 1..Len(ps) : ps[e].team # ps[i].team /\ ps[e].isAlive})

\* the bots that throw in this run of gameLoop, in roster order: a living bot with a
\* ball whose draw is below 0.02 and that has a living enemy
StateThrowers(ps, rnd) ==
    InOrder({i \in 1..Len(ps) :
                /\ ps[i].isAlive /\ ~ps[i].isPlayer /\ ps[i].hasBall
                /\ i \in rnd.throwers
                /\ StateEnemies(ps, i) # <<>>})

\* enemies[Math.floor(Math.random() * enemies.length)]
StateTarget(ps, i, rnd) ==
    LET enemies == StateEnemies(ps, i)
    IN  ps[enemies[(rnd.pick * Len(enemies)) \div 1000 + 1]]

\* balls.map of gameLoop: a free ball flies
StateFly(ball) ==
    LET px == ball.position.x + ball.velocity.x
        py == ball.position.y + ball.velocity.y
        hitX == px - Px(BALL_RADIUS) < 0 \/ px + Px(BALL_RADIUS) > Px(CANVAS_WIDTH)
        hitY == py - Px(BALL_RADIUS) < 0 \/ py + Px(BALL_RADIUS) > Px(CANVAS_HEIGHT)
        vx == IF hitX THEN Frac(ball.velocity.x, -BALL_BOUNCE) ELSE ball.velocity.x
        vy == IF hitY THEN Frac(ball.velocity.y, -BALL_BOUNCE) ELSE ball.velocity.y
        nv == Vec(Frac(vx, BALL_DAMPING), Frac(vy, BALL_DAMPING))
    IN  [ball EXCEPT
            !.position =
                Vec(IF hitX
                    THEN MathMax(Px(BALL_RADIUS),
                                 MathMin(Px(CANVAS_WIDTH) - Px(BALL_RADIUS), px))
                    ELSE px,
                    IF hitY
                    THEN MathMax(Px(BALL_RADIUS),
                                 MathMin(Px(CANVAS_HEIGHT) - Px(BALL_RADIUS), py))
                    ELSE py),
            !.justThrown = IF hitX \/ hitY THEN FALSE ELSE @,
            !.velocity = IF MathAbs(nv.x) < Px(1) \div 10 /\ MathAbs(nv.y) < Px(1) \div 10
                         THEN Vec(0, 0) ELSE nv]

\* balls.map of gameLoop: the new ball meets player k of updatedPlayers
\* acc is [ps, ball, log]
StateTouch(acc, k, j, clock, infinite) ==
    LET player == acc.ps[k]
        newBall == acc.ball
    IN  IF ~player.isAlive THEN acc
        ELSE IF distance(newBall.position, player.position)
                    < Px(BALL_RADIUS) + Px(PLAYER_RADIUS)
        THEN IF newBall.justThrown /\ newBall.thrownBy # player.id /\ newBall.owner = NoId
             THEN LET thrower == FindPlayer(acc.ps, newBall.thrownBy)
                  IN  IF thrower # 0 /\ acc.ps[thrower].team # player.team
                      THEN [acc EXCEPT
                              !.ps[k].isAlive = FALSE,
                              !.ps[k].respawnTime =
                                  IF infinite THEN clock + RESPAWN_TIME_STATE ELSE 0,
                              !.ball.justThrown = FALSE,
                              !.ball.thrownBy = NoId,
                              !.log = Append(acc.log,
                                             Ev("hit", j, k, thrower, TRUE, NoId, 0))]
                      ELSE acc
             ELSE IF ~newBall.justThrown /\ ~player.hasBall /\ newBall.owner = NoId
             THEN [acc EXCEPT
                     !.ball.owner = player.id,
                     !.ps[k].hasBall = TRUE,
                     !.log = Append(acc.log, Ev("pickup", j, k, 0, FALSE, NoId, 0))]
             ELSE acc
        ELSE acc

RECURSIVE StateTouchAll(_, _, _, _, _)
StateTouchAll(acc, k, j, clock, infinite) ==
    IF k > Len(acc.ps) THEN acc
    ELSE StateTouchAll(StateTouch(acc, k, j, clock, infinite), k + 1, j, clock, infinite)

\* balls.map of gameLoop: ball j of the balls the run was created with
\* w is [ps, out, log]
StateBall(w, j, bs, clock, infinite) ==
    LET ball == bs[j]
        owner == FindPlayer(w.ps, ball.owner)
        newBall == IF ball.owner # NoId
                   THEN IF owner # 0 /\ w.ps[owner].isAlive
                        THEN [ball EXCEPT !.position = w.ps[owner].position,
                                          !.velocity = Vec(0, 0)]
                        ELSE [ball EXCEPT !.owner = NoId]
                   ELSE StateFly(ball)
        met == StateTouchAll([ps |-> w.ps, ball |-> newBall, log |-> w.log],
                             1, j, clock, infinite)
    IN  [ps |-> met.ps, out |-> Append(w.out, met.ball), log |-> met.log]

RECURSIVE StateBallsFrom(_, _, _, _, _)
StateBallsFrom(w, j, bs, clock, infinite) ==
    IF j > Len(bs) THEN w
    ELSE StateBallsFrom(StateBall(w, j, bs, clock, infinite), j + 1, bs, clock, infinite)

\* one run of gameLoop on the players ps and balls bs of its render, and the state
\* after React has applied the updates the run queued
StateOutcome(ps, bs, mouse, clock, infinite, rnd) ==
    LET throwers == StateThrowers(ps, rnd)
        thrown == [n \in 1..Len(throwers) |->
                      Updater(ps[throwers[n]],
                              StateTarget(ps, throwers[n], rnd).position)]
        mapped == [k \in 1..Len(ps) |-> StatePlayer(ps[k], bs, mouse, clock, infinite)]
        throwLog == [n \in 1..Len(throwers) |->
                        [Ev("throw",
                            Min({j \in 1..Len(bs) : bs[j].owner = ps[throwers[n]].id}
                                \cup {Len(bs) + 1}),
                            throwers[n], throwers[n], FALSE, ps[throwers[n]].id, 0)
                         EXCEPT !.after = thrown[n].target]]
        w == StateBallsFrom([ps |-> mapped, out |-> <<>>, log |-> throwLog],
                            1, bs, clock, infinite)
        updatedPlayers == w.ps
        updatedBalls == w.out
        over == IsOver(updatedPlayers, infinite)
    IN  [players |-> ApplyPlayerUpdates(thrown \o <<Value(updatedPlayers)>>, ps),
         balls |-> ApplyBallUpdates(thrown \o <<Value(updatedBalls)>>, bs),
         score |-> [purple |-> Alive(updatedPlayers, "purple"),
                    blue |-> Alive(updatedPlayers, "blue")],
         gameState |-> IF over THEN "results" ELSE "playing",
         log |-> w.log]

StateDraws ==
    {[throwers |-> t, pick |-> p] :
        t \in {S \in SUBSET StateThrowerPlaces : Cardinality(S) <= MaxBotThrows},
        p \in StatePicks}

\* a start button of the menu: initGame
StateStart(infinite, playerTeam, xoff) ==
    /\ gameState = "menu"
    /\ players' = StatePlayers(playerTeam, xoff)
    /\ balls' = StateBalls(players')
    /\ infiniteMode' = infinite
    /\ score' = [purple |-> 5, blue |-> 5]
    /\ gameState' = "playing"
    /\ frame' = 0
    /\ last' = "initGame"
    /\ log' = <<>>
    /\ UNCHANGED <<teamSize, mousePosition, particles, gameStartTime, rafScheduled,
                   effectPending, now>>

\* the effect that holds gameLoop runs after every render that changed players or
\* balls: one run of gameLoop, and the render that applies its updates
StateTick(rnd) ==
    /\ gameState = "playing"
    /\ frame < StateTicks
    /\ now' = now + FrameMs
    /\ \E r \in {StateOutcome(players, balls, mousePosition, now + FrameMs,
                              infiniteMode, rnd)} :
          /\ players' = r.players
          /\ balls' = r.balls
          /\ score' = r.score
          /\ gameState' = r.gameState
          /\ log' = r.log
    /\ frame' = frame + 1
    /\ last' = "gameLoop"
    /\ UNCHANGED <<infiniteMode, teamSize, mousePosition, particles, gameStartTime,
                   rafScheduled, effectPending>>

\* a click on the canvas: handleMouseDown, handleMouseUp and handleCanvasClick
StateClick(clickPos) ==
    /\ gameState = "playing"
    /\ frame \in StateClickFrames
    /\ mousePosition # clickPos
    /\ mousePosition' = clickPos
    /\ LET S == {i \in 1..Len(players) : players[i].isPlayer /\ players[i].isAlive}
           player == IF S = {} THEN 0 ELSE Min(S)
           C == IF player = 0 THEN {}
                ELSE {k \in 1..Len(players) :
                        /\ players[k].team # players[player].team
                        /\ players[k].isAlive
                        /\ distance(players[k].position, clickPos) < Px(PLAYER_RADIUS)}
       IN  IF player # 0 /\ players[player].hasBall /\ C # {}
           THEN /\ balls' = throwBallAt(balls, players[player], players[Min(C)].position)
                /\ players' = throwBallAtPlayers(players, players[player])
                /\ log' = [n \in 1..1 |->
                              [Ev("throw",
                                  Min({j \in 1..Len(balls) :
                                          balls[j].owner = players[player].id}
                                      \cup {Len(balls) + 1}),
                                  player, player, FALSE, players[player].id, 0)
                               EXCEPT !.after = players[Min(C)].position]]
           ELSE /\ UNCHANGED <<players, balls>>
                /\ log' = <<>>
    /\ last' = "click"
    /\ UNCHANGED <<gameState, infiniteMode, teamSize, score, particles, gameStartTime,
                   rafScheduled, effectPending, now, frame>>

StateNext ==
    \/ \E infinite \in BOOLEAN, playerTeam \in Teams :
          \E xoff \in [1..2 * TEAM_PLAYERS -> StateXOffsets] :
              StateStart(infinite, playerTeam, xoff)
    \/ \E rnd \in StateDraws : StateTick(rnd)
    \/ \E clickPos \in StateClickPoints : StateClick(clickPos)

StateSpec == Init /\ [][StateNext]_vars

\* ------------------------------------------------------------ properties
\* the state a run of gameLoop has just left behind
EndOfTick == last = "gameLoop"

\* the balls attached to player i
Owned(i) == {j \in 1..Len(balls) : balls[j].owner = players[i].id}

\* the squared speed of ball j
SpeedSq(j) ==
    balls[j].velocity.x * balls[j].velocity.x + balls[j].velocity.y * balls[j].velocity.y

\* the eliminations of the last handler, as positions in the log
Hits == {k \in 1..Len(log) : log[k].type = "hit"}

\* the balls moved by the ball-ball pass of the last gameLoop
Collided == {log[k].ball : k \in {n \in 1..Len(log) : log[n].type = "collide"}}
              \cup {log[k].thrower : k \in {n \in 1..Len(log) : log[n].type = "collide"}}

\* player i is inside its invulnerability window
Invulnerable(i) == players[i].invulnerableUntil # 0 /\ now < players[i].invulnerableUntil

\* ball j touches player i
Touches(j, i) ==
    distance(balls[j].position, players[i].position) < Px(BALL_RADIUS) + Px(PLAYER_RADIUS)

\* C1: at the end of every tick every living player owns at most one ball.
\* The code does not keep this: see TwoBallsOwned.
AtMostOneBallPerPlayer ==
    EndOfTick =>
        \A i \in 1..Len(players) : players[i].isAlive => Cardinality(Owned(i)) <= 1

\* C1: a living player with two balls attached at the end of a tick.
TwoBallsOwned ==
    EndOfTick /\ \E i \in 1..Len(players) : players[i].isAlive /\ Cardinality(Owned(i)) >= 2

\* C2: at the end of every tick, the elimination tick included, no ball is owned
\* by a dead player.
NoBallOwnedByDead ==
    EndOfTick =>
        \A j \in 1..Len(balls) :
            balls[j].owner # NoId =>
                LET o == FindPlayer(players, balls[j].owner)
                IN  o # 0 /\ players[o].isAlive

\* C3: at the end of every tick every dead player has hasBall = FALSE.
DeadHoldNoBall ==
    EndOfTick => \A i \in 1..Len(players) : ~players[i].isAlive => ~players[i].hasBall

\* C4: at the end of every tick, the pickup tick included, every owned ball is at
\* its owner's position with velocity (0,0).
OwnedBallsFollowOwner ==
    EndOfTick =>
        \A j \in 1..Len(balls) :
            balls[j].owner # NoId =>
                LET o == FindPlayer(players, balls[j].owner)
                IN  /\ o # 0
                    /\ balls[j].position = players[o].position
                    /\ balls[j].velocity = Vec(0, 0)

\* C5: in every state, between ticks and after a click, a ball with justThrown set
\* has no owner.
LethalBallsAreFree ==
    \A j \in 1..Len(balls) : balls[j].justThrown => balls[j].owner = NoId

\* C5: at the end of a tick a lethal ball lies within the pickup radius of a living
\* player without a ball (its thrower, one tick after the throw).
LethalBallBesideEmptyHanded ==
    EndOfTick /\ \E j \in 1..Len(balls), i \in 1..Len(players) :
        /\ balls[j].justThrown
        /\ players[i].isAlive /\ ~players[i].hasBall
        /\ distance(balls[j].position, players[i].position) < Px(BALL_PICKUP_RADIUS)

\* C6: at the end of every tick a free ball is lethal only at a speed of 0.5 or
\* more, and below 0.5 its velocity is (0,0) and it is not lethal.
SettleRuleAtEndOfTick ==
    EndOfTick =>
        \A j \in 1..Len(balls) :
            balls[j].owner = NoId =>
                /\ balls[j].justThrown => SpeedSq(j) >= (Px(1) \div 2) * (Px(1) \div 2)
                /\ SpeedSq(j) < (Px(1) \div 2) * (Px(1) \div 2) =>
                      balls[j].velocity = Vec(0, 0) /\ ~balls[j].justThrown

\* C7: a player goes from alive to dead only in a gameLoop, by a hit of a ball that
\* was lethal and unowned and whose thrower is another player, of the other team.
OnlyOpposingLethalHitsKill ==
    [][\A i \in 1..Len(players) :
          (i <= Len(players') /\ players[i].isAlive /\ ~players'[i].isAlive) =>
              /\ last' = "gameLoop"
              /\ \E k \in 1..Len(log') :
                    /\ log'[k].type = "hit" /\ log'[k].player = i
                    /\ log'[k].lethal /\ log'[k].owner = NoId
                    /\ log'[k].thrower # i
                    /\ players[log'[k].thrower].team # players[i].team]_vars

\* C7: the tick that has just ended eliminated a player.
PlayerEliminated ==
    EndOfTick /\ \E k \in Hits : ~players[log[k].player].isAlive

\* C8 as stated: after a tick with a hit the victim is dead, the ball is neither
\* lethal nor attributed, and the thrower's kills are one more than before the hit.
HitOutcomeAtEndOfTick ==
    EndOfTick =>
        \A k \in Hits :
            /\ ~players[log[k].player].isAlive
            /\ ~balls[log[k].ball].justThrown
            /\ balls[log[k].ball].thrownBy = NoId
            /\ players[log[k].thrower].kills = log[k].before[log[k].thrower] + 1

\* C8 amended: a lethal ball that touches a living, vulnerable player of the team
\* opposing its thrower at its hit test hits it; after the tick the victim is dead
\* and the ball is neither lethal nor attributed; the hit raises the thrower's
\* kills by one, and that is the thrower's kills at the end of the tick unless
\* another hit of the same tick eliminates the thrower or is the thrower's too.
HitOutcome ==
    EndOfTick =>
        /\ \A k \in Hits :
              /\ ~players[log[k].player].isAlive
              /\ ~balls[log[k].ball].justThrown
              /\ balls[log[k].ball].thrownBy = NoId
              /\ log[k].after[log[k].thrower] = log[k].before[log[k].thrower] + 1
              /\ (\A n \in Hits \ {k} :
                      log[n].player # log[k].thrower /\ log[n].thrower # log[k].thrower)
                   => players[log[k].thrower].kills = log[k].before[log[k].thrower] + 1
        /\ \A j \in 1..Len(balls), i \in 1..Len(players) :
              LET t == FindPlayer(players, balls[j].thrownBy)
              IN  ~ /\ balls[j].justThrown /\ balls[j].owner = NoId /\ j \notin Collided
                    /\ t # 0 /\ t # i
                    /\ players[i].isAlive /\ players[t].team # players[i].team
                    /\ ~Invulnerable(i)
                    /\ Touches(j, i)

\* C8: the human's ball has hit in the tick that has just ended, and the human's
\* kills stand at one.
HumanScores ==
    EndOfTick /\ \E k \in Hits :
        /\ players[log[k].thrower].isPlayer
        /\ log[k].before[log[k].thrower] = 0
        /\ players[log[k].thrower].kills = 1

\* C9: every elimination leaves the victim's kills at 0, the thrower's one higher
\* and everybody else's as they were; no player is eliminated twice in a tick; and
\* the kills change in a tick by its eliminations only.
KillsBookkeeping ==
    EndOfTick =>
        /\ \A k \in Hits :
              /\ log[k].after[log[k].player] = 0
              /\ log[k].after[log[k].thrower] = log[k].before[log[k].thrower] + 1
              /\ \A i \in 1..Len(players) :
                    i \notin {log[k].player, log[k].thrower} =>
                        log[k].after[i] = log[k].before[i]
        /\ \A k, n \in Hits : k # n => log[k].player # log[n].player
        /\ \A k, n \in Hits :
              (k < n /\ \A m \in Hits : ~(k < m /\ m < n)) => log[k].after = log[n].before
        /\ \A k \in Hits : (\A m \in Hits : m <= k) => log[k].after = Kills(players)

\* C9: after a player's elimination a second lethal ball of the other team, later
\* in the ball collection, touches that player in the same tick.
SecondLethalBallOnVictim ==
    EndOfTick /\ \E k \in Hits : \E j \in 1..Len(balls) :
        LET t == FindPlayer(players, balls[j].thrownBy)
        IN  /\ j > log[k].ball /\ balls[j].justThrown /\ j \notin Collided
            /\ t # 0 /\ players[t].team # players[log[k].player].team
            /\ Touches(j, log[k].player)

\* C10: no ball eliminates two players in one tick.
OneKillPerBall ==
    EndOfTick => \A k, n \in Hits : k # n => log[k].ball # log[n].ball

\* C10: the ball that has just eliminated a player also touches a second living,
\* vulnerable player of the victim's team, later in the roster.
BallTouchesSecondOpponent ==
    EndOfTick /\ \E k \in Hits : \E i \in 1..Len(players) :
        /\ i > log[k].player /\ players[i].isAlive /\ ~Invulnerable(i)
        /\ players[i].team # players[log[k].thrower].team
        /\ log[k].ball \notin Collided
        /\ Touches(log[k].ball, i)

\* the human player is in the roster and alive
HumanAlive == FindHuman(players) # 0 /\ players[FindHuman(players)].isAlive

\* the living count of some team is 0
TeamWiped == Alive(players, "purple") = 0 \/ Alive(players, "blue") = 0

\* C11: the match is over exactly under the mode's condition: a tick of a
\* fixed-round match ends it if and only if it leaves a team without a living player
\* or the human dead, a tick of an infinite match if and only if it leaves the human
\* dead; and the match is never over in a state where that condition does not hold.
MatchOverOnModeCondition ==
    LET condition == IF infiniteMode THEN ~HumanAlive ELSE TeamWiped \/ ~HumanAlive
    IN  /\ gameState = "results" => condition
        /\ EndOfTick => (condition => gameState = "results")

\* C11: a tick of an infinite match leaves a team without a living player and the
\* match goes on.
InfiniteMatchGoesOn ==
    EndOfTick /\ infiniteMode /\ TeamWiped /\ HumanAlive /\ gameState = "playing"

\* the living players of the human's team
HumanTeamAlive ==
    IF FindHuman(players) = 0 THEN 0 ELSE Alive(players, players[FindHuman(players)].team)

\* C12: the outcome shown with the end of the match is a win if and only if the
\* human's team has at least one living member when the match ends.
\* The code does not decide it so: see WinIffHumanAlive.
WinIffTeamAlive ==
    gameState = "results" => (playerWon <=> HumanTeamAlive >= 1)

\* C12: the outcome shown with the end of the match is a win if and only if the
\* human player is alive when the match ends; a dead human loses, whoever of the
\* team still lives.
WinIffHumanAlive ==
    gameState = "results" => (playerWon <=> HumanAlive)

\* C12: a fixed-round match ends with the human alive and the other team wiped out,
\* and the outcome is a win.
HumanWins ==
    EndOfTick /\ gameState = "results" /\ ~infiniteMode /\ HumanAlive /\ playerWon
        /\ Alive(players, IF players[FindHuman(players)].team = "purple"
                          THEN "blue" ELSE "purple") = 0

\* player i is dead and waits for the respawn time it was given
Waiting(i) == ~players[i].isAlive /\ players[i].respawnTime # 0

\* C13: in an infinite match a tick whose clock is before the respawn time of a dead
\* player leaves that player as it was, dead at the same place with the same ball
\* flag and timers (only the aura mark is cleared, and a ball it threw before its
\* death may add to its kills): the tick records no hit, pickup, respawn or AI
\* decision of that player and attaches no ball to it.
DeadUntilRespawnTime ==
    [][(last' = "gameLoop" /\ infiniteMode) =>
          \A i \in 1..Len(players) :
              (Waiting(i) /\ now' < players[i].respawnTime) =>
                  /\ players'[i] = [players[i] EXCEPT !.hasAura = FALSE,
                                                      !.kills = players'[i].kills]
                  /\ \A k \in 1..Len(log') :
                        log'[k].player = i => log'[k].type = "release"
                  /\ \A j \in 1..Len(balls) :
                        balls'[j].owner = players[i].id => balls[j].owner = players[i].id]_vars

\* C13: a tick of an infinite match has run over a player that was dead before it
\* and whose respawn time is still ahead, with a free ball at rest inside the pickup
\* radius of that player.
DeadPlayerBesideFreeBall ==
    EndOfTick /\ infiniteMode /\ gameState = "playing" /\
    \E i \in 1..Len(players) :
        /\ Waiting(i) /\ now < players[i].respawnTime
        /\ \A k \in Hits : log[k].player # i
        /\ \E j \in 1..Len(balls) :
              /\ balls[j].owner = NoId /\ ~balls[j].justThrown
              /\ distance(balls[j].position, players[i].position) < Px(BALL_PICKUP_RADIUS)

\* the spawn point of a team
SpawnPoint(team) ==
    Vec(IF team = "purple" THEN Px(CANVAS_WIDTH) \div 4 ELSE (3 * Px(CANVAS_WIDTH)) \div 4,
        Px(CANVAS_HEIGHT) \div 2)

\* the last handler recorded an event of this type for player i
Recorded(type, i) == \E k \in 1..Len(log) : log[k].type = type /\ log[k].player = i

\* what Respawn makes of the state for player i
Respawned(i) ==
    Respawn([players |-> players, balls |-> balls, particles |-> particles,
             log |-> <<>>], i)

\* C14: in an infinite match the first tick that runs with the clock at or after the
\* respawn time of a dead player leaves that player alive, without a ball, at the
\* spawn point of its team and at rest. The code does not do so at the respawn time
\* itself, and the ball pass of the same tick acts on the respawned player: see
\* RespawnAfterRespawnTime.
RespawnAtRespawnTime ==
    [][(last' = "gameLoop" /\ infiniteMode) =>
          \A i \in 1..Len(players) :
              (Waiting(i) /\ now' >= players[i].respawnTime) =>
                  /\ players'[i].isAlive
                  /\ ~players'[i].hasBall
                  /\ players'[i].position = SpawnPoint(players[i].team)
                  /\ players'[i].velocity = Vec(0, 0)]_vars

\* C14: in an infinite match a tick whose clock is after the respawn time of a dead
\* player respawns that player, and a tick whose clock is at the respawn time or
\* before it does not. The respawned player ends the tick at the spawn point of its
\* team and at rest, alive unless a ball has hit it in this tick and without a ball
\* unless it has picked one up in this tick. The respawn itself changes that player
\* only: no other player, nobody's kills and no ball.
RespawnAfterRespawnTime ==
    [][(last' = "gameLoop" /\ infiniteMode) =>
          \A i \in 1..Len(players) :
              Waiting(i) =>
                  IF now' > players[i].respawnTime
                  THEN /\ Recorded("respawn", i)'
                       /\ players'[i].position = SpawnPoint(players[i].team)
                       /\ players'[i].velocity = Vec(0, 0)
                       /\ players'[i].isAlive \/ Recorded("hit", i)'
                       /\ ~players'[i].hasBall \/ Recorded("pickup", i)'
                       /\ Respawned(i).balls = balls
                       /\ Kills(Respawned(i).players) = Kills(players)
                       /\ \A k \in 1..Len(players) :
                             k # i => Respawned(i).players[k] = players[k]
                       /\ Respawned(i).players[i].isAlive
                       /\ ~Respawned(i).players[i].hasBall
                  ELSE ~players'[i].isAlive /\ ~Recorded("respawn", i)']_vars

\* C14: a tick of an infinite match has respawned a player whose ball was still
\* attached to it: the player is alive, with its ball flag cleared, at its spawn point.
PlayerRespawned ==
    EndOfTick /\ infiniteMode /\ \E i \in 1..Len(players) :
        /\ Recorded("respawn", i) /\ ~Recorded("pickup", i)
        /\ players[i].isAlive /\ ~players[i].hasBall
        /\ players[i].position = SpawnPoint(players[i].team)
        /\ Owned(i) # {}

\* the throws of the last handler, as positions in the log
Throws == {k \in 1..Len(log) : log[k].type = "throw"}

\* C15: a throw of a player that owns a ball is one step on one ball: no handler
\* throws two balls for one player, and a click that throws leaves the thrown ball
\* free, lethal, marked with its thrower and with an empty trail, clears the
\* thrower's ball flag and changes no other ball and no other player.
\* The code does not keep this: see TwoBallsThrown.
ThrowMovesOneBall ==
    [][/\ \A k, n \in Throws' : k # n => log'[k].player # log'[n].player
       /\ (last' = "click" /\ Throws' # {}) =>
             \E k \in Throws' :
                 LET i == log'[k].player
                     j == log'[k].ball
                 IN  /\ balls[j].owner = players[i].id
                     /\ balls'[j].owner = NoId
                     /\ balls'[j].justThrown
                     /\ balls'[j].thrownBy = players[i].id
                     /\ balls'[j].trail = 0
                     /\ ~players'[i].hasBall
                     /\ \A b \in 1..Len(balls) : b # j => balls'[b] = balls[b]
                     /\ \A p \in 1..Len(players) : p # i => players'[p] = players[p]]_vars

\* C15: one throw of a player has set two balls flying, both lethal, with the same
\* velocity.
TwoBallsThrown ==
    EndOfTick /\ \E k, n \in Throws :
        /\ k # n /\ log[k].player = log[n].player
        /\ balls[log[k].ball].justThrown /\ balls[log[n].ball].justThrown
        /\ balls[log[k].ball].velocity = balls[log[n].ball].velocity

\* the state as the handlers see it
World == [players |-> players, balls |-> balls, particles |-> particles, log |-> <<>>]

\* C16: a throw for a player that owns no ball changes nothing; a click changes
\* something only if the human is alive and owns a ball; and every throw a handler
\* records is the throw of a player that was alive and owned the ball.
ThrowNeedsOwnedBall ==
    [][/\ \A i \in 1..Len(players) : \A c \in Clicks :
             Owned(i) = {} => throwBall(World, i, c.pos) = World
       /\ last' = "click" =>
             \/ HumanAlive /\ Owned(FindHuman(players)) # {}
             \/ /\ players' = players /\ balls' = balls /\ particles' = particles
                /\ log' = <<>>
       /\ last' \in {"gameLoop", "click"} => \A k \in Throws' :
             /\ players[log'[k].player].isAlive
             /\ balls[log'[k].ball].owner = players[log'[k].player].id]_vars

\* C16: the human, alive and without a ball, has clicked while a ball lies free,
\* and nothing was thrown.
ClickWithoutBall ==
    /\ last = "click" /\ log = <<>> /\ HumanAlive
    /\ Owned(FindHuman(players)) = {}
    /\ \E j \in 1..Len(balls) : balls[j].owner = NoId

\* C17: initGame leaves a full fresh roster: per team as many players as the team
\* size, exactly one of them the human, all alive with hasBall set, no kills and no
\* respawn or invulnerability time; one ball per player, attached to that player at
\* its position, at rest and not lethal, so that the owners are pairwise distinct;
\* the score at the team size; no particle; and the game state 'playing'.
FreshMatch ==
    last = "initGame" =>
        /\ gameState = "playing"
        /\ teamSize \in 1..5
        /\ Len(players) = 2 * teamSize /\ Len(balls) = 2 * teamSize
        /\ \A team \in Teams :
              Cardinality({i \in 1..Len(players) : players[i].team = team}) = teamSize
        /\ Cardinality({i \in 1..Len(players) : players[i].isPlayer}) = 1
        /\ \A i \in 1..Len(players) :
              /\ players[i].isAlive /\ players[i].hasBall /\ players[i].kills = 0
              /\ players[i].respawnTime = 0 /\ players[i].invulnerableUntil = 0
              /\ players[i].velocity = Vec(0, 0) /\ ~players[i].hasAura
              /\ players[i].aiTimer = 0
              /\ Owned(i) = {i}
        /\ \A i, k \in 1..Len(players) : i # k => players[i].id # players[k].id
        /\ \A j, k \in 1..Len(balls) : j # k => balls[j].id # balls[k].id
        /\ \A j \in 1..Len(balls) :
              /\ ~balls[j].justThrown /\ balls[j].thrownBy = NoId
              /\ balls[j].velocity = Vec(0, 0) /\ balls[j].trail = 0
              /\ balls[j].position = players[j].position
        /\ score = [purple |-> teamSize, blue |-> teamSize]
        /\ particles = <<>>

\* C17: initGame has built a match of two against two in infinite mode.
MatchStarted ==
    last = "initGame" /\ teamSize = 2 /\ infiniteMode /\ Len(players) = 4
        /\ gameState = "playing"

\* what a roster and its balls are apart from the random draws of positions and
\* throw delays: the ids and teams in order, and the owner of every ball
Lineup(ps) ==
    [roster |-> [k \in 1..Len(ps) |-> [id |-> ps[k].id, team |-> ps[k].team]],
     balls |-> [k \in 1..Len(ps) |-> [id |-> NewBall(ps[k]).id,
                                       owner |-> NewBall(ps[k]).owner]]]

\* who is marked as the human in a roster
Marking(ps) == [k \in 1..Len(ps) |-> ps[k].isPlayer]

\* the rosters initGame can build for the team size at hand
Rosters ==
    {NewPlayers(teamSize, playerTeam, draw) :
        playerTeam \in Teams, draw \in UNION {InitDraws(teamSize, t) : t \in Teams}}

\* C18: initGame is deterministic in the team size and the mode: every run with the
\* same team size builds the same ids, teams and ownership and marks the same player
\* as the human. The code does not: see SameLineup.
SameRoster ==
    last = "initGame" =>
        \A ps \in Rosters : Lineup(ps) = Lineup(players) /\ Marking(ps) = Marking(players)

\* C18: every run of initGame with the same team size builds the same ids and teams
\* in the same order and the same ownership of the balls, and marks as the human
\* the player of index floor(size / 2) of one team; which team is not determined by
\* the team size and the mode.
SameLineup ==
    last = "initGame" =>
        /\ \A ps \in Rosters : Lineup(ps) = Lineup(players)
        /\ [k \in 1..Len(balls) |-> [id |-> balls[k].id, owner |-> balls[k].owner]]
              = Lineup(players).balls
        /\ \A ps \in Rosters : \E team \in Teams :
              \A k \in 1..Len(ps) :
                  ps[k].isPlayer <=> (ps[k].team = team /\ ps[k].id[2] = teamSize \div 2)
        /\ \E ps \in Rosters : Marking(ps) # Marking(players)

\* C18: initGame has built a match of two against two with the human on the blue
\* team.
HumanOnBlue ==
    last = "initGame" /\ teamSize = 2 /\ FindHuman(players) # 0
        /\ players[FindHuman(players)].team = "blue"

PlayersInOwnHalf ==
    EndOfTick =>
        \A i \in 1..Len(players) :
            players[i].isAlive =>
                /\ players[i].position.x >= MinX(players[i].team)
                /\ players[i].position.x <= MaxX(players[i].team)
                /\ players[i].position.y >= Px(PLAYER_RADIUS)
                /\ players[i].position.y <= Px(CANVAS_HEIGHT) - Px(PLAYER_RADIUS)
                /\ (players[i].team = "purple") = (players[i].position.x < Px(CANVAS_WIDTH) \div 2)

\* C20: the human of the blue team steers toward a mouse on the purple side and
\* stands at the limit of its half, while a tick has just respawned a purple player.
HumanAtCentreLimit ==
    EndOfTick /\ HumanAlive /\
    LET human == FindHuman(players)
    IN  /\ players[human].team = "blue"
        /\ mousePosition.x < MinX("blue")
        /\ players[human].position.x = MinX("blue")
        /\ \E i \in 1..Len(players) : Recorded("respawn", i) /\ players[i].isAlive

\* a . b for two vectors
Dot(a, b) == a.x * b.x + a.y * b.y

\* the free balls a and b fly toward each other head-on at equal speed: with
\* opposite velocities along the line of their centres
HeadOn(a, b) ==
    LET d == Vec(balls[b].position.x - balls[a].position.x,
                 balls[b].position.y - balls[a].position.y)
        v == balls[a].velocity
    IN  /\ balls[a].owner = NoId /\ balls[b].owner = NoId
        /\ balls[b].velocity = Vec(-v.x, -v.y)
        /\ v.x * d.y = v.y * d.x
        /\ Dot(v, d) > 0
        /\ Dot(v, v) >= Px(1) * Px(1)

\* after the motion of this tick the balls a and b overlap and have not passed each
\* other: ball a does not move away from ball b
MeetThisTick(a, b) ==
    LET p == Fly(balls[a]).position
        q == Fly(balls[b]).position
    IN  /\ distance(p, q) < Px(BALL_RADIUS) + Px(BALL_RADIUS)
        /\ Dot(balls[a].velocity, Vec(q.x - p.x, q.y - p.y)) >= 0

\* the last handler recorded a wall contact, a hit or a pickup of ball j, or a
\* collision of ball j with a ball other than k
Disturbed(j, k) ==
    \E n \in 1..Len(log) :
        \/ log[n].type \in {"wall", "hit", "pickup"} /\ log[n].ball = j
        \/ log[n].type = "collide" /\ j \in {log[n].ball, log[n].thrower}
              /\ k \notin {log[n].ball, log[n].thrower}

\* C21: two free balls that fly toward each other head-on at equal speed and overlap
\* after the motion of a tick end that tick with their velocities reversed and
\* slower than before, and at least the sum of their radii apart (to the last digit
\* of the arithmetic), unless a wall, a player or a third ball has acted on them.
\* The code does not keep this: see BallsPassThrough.
HeadOnCollisionReverses ==
    [][last' = "gameLoop" =>
          \A a, b \in 1..Len(balls) :
              (a < b /\ HeadOn(a, b) /\ MeetThisTick(a, b)
                 /\ ~Disturbed(a, b)' /\ ~Disturbed(b, a)') =>
                  /\ Dot(balls'[a].velocity, balls[a].velocity) < 0
                  /\ Dot(balls'[b].velocity, balls[b].velocity) < 0
                  /\ Dot(balls'[a].velocity, balls'[a].velocity)
                        < Dot(balls[a].velocity, balls[a].velocity)
                  /\ Dot(balls'[b].velocity, balls'[b].velocity)
                        < Dot(balls[b].velocity, balls[b].velocity)
                  /\ distance(balls'[a].position, balls'[b].position)
                        >= Px(BALL_RADIUS) + Px(BALL_RADIUS) - 2]_vars

\* C21: two free balls end a tick at the same place with opposite velocities: they
\* met head-on and the collision pass left them as they were.
BallsPassThrough ==
    EndOfTick /\ \E a, b \in 1..Len(balls) :
        /\ a < b /\ balls[a].owner = NoId /\ balls[b].owner = NoId
        /\ balls[a].position = balls[b].position
        /\ balls[a].velocity # Vec(0, 0)
        /\ balls[b].velocity = Vec(-balls[a].velocity.x, -balls[a].velocity.y)

\* the throws bots made in the last gameLoop, as positions in the log
BotThrows ==
    {k \in Throws : last = "gameLoop" /\ ~players[log[k].player].isPlayer}

\* C22: a tick runs player motion, ball physics and hit resolution before the AI of
\* the bots, so what a bot decides in a tick acts in the following tick: a ball a
\* bot throws in a tick has not flown by the end of that tick, it is where its
\* thrower was or is.
\* The code does not keep this: see BotThrowFliesAtOnce.
AIActsNextTick ==
    [][\A k \in BotThrows' :
          balls'[log'[k].ball].position
              \in {players[log'[k].player].position, players'[log'[k].player].position}]_vars

\* C22: at the end of the tick in which a bot threw it, a ball is more than 10 px
\* from its thrower: the throw of the player pass was followed by the ball's flight
\* in the ball pass of the same tick.
BotThrowFliesAtOnce ==
    \E k \in BotThrows :
        distance(balls[log[k].ball].position, players[log[k].player].position) > Px(10)

\* C23: once a match is over (the results screen is up) no frame callback is
\* scheduled and no effect run is pending, and every step other than a new initGame
\* leaves the players, the balls and the number of gameLoop runs as they are and
\* schedules no frame.
MatchOverStopsStepping ==
    [][gameState = "results" =>
          /\ ~rafScheduled
          /\ ~effectPending
          /\ last' # "initGame" =>
                /\ players' = players
                /\ balls' = balls
                /\ frame' = frame
                /\ ~rafScheduled'
                /\ ~effectPending']_vars

\* C23: a finished match was left for the menu: its roster is still there and
\* nothing is scheduled.
MatchOverThenMenu ==
    /\ last = "mainMenu"
    /\ gameState = "menu"
    /\ Len(players) > 0
    /\ frame > 0
    /\ ~rafScheduled

\* C24: a gameLoop never eliminates a player whose invulnerability window is
\* active at the clock of that gameLoop, and from the first gameLoop of a match on
\* the window of the human ends 3000 ms after the start of the match.
ShieldedPlayerSurvives ==
    [][last' = "gameLoop" =>
          /\ \A i \in 1..Len(players) :
                (players[i].isAlive /\ Invulnerable(i)') => players'[i].isAlive
          /\ FindHuman(players') # 0 =>
                players'[FindHuman(players')].invulnerableUntil = gameStartTime + 3000]_vars

\* C24: at the end of a tick a lethal ball of the other team overlaps the living
\* human, whose invulnerability window is active.
LethalBallOnShieldedHuman ==
    /\ EndOfTick
    /\ \E i \in 1..Len(players), j \in 1..Len(balls) :
          /\ players[i].isPlayer /\ players[i].isAlive /\ Invulnerable(i)
          /\ balls[j].justThrown
          /\ FindPlayer(players, balls[j].thrownBy) # 0
          /\ players[FindPlayer(players, balls[j].thrownBy)].team # players[i].team
          /\ Touches(j, i)

\* the AI evaluations of player i in the last gameLoop, as positions in the log
Evaluations(i) ==
    {k \in 1..Len(log) :
        /\ last = "gameLoop"
        /\ log[k].type \in {"evade", "chase", "attack", "idle"}
        /\ log[k].player = i}

\* bot i is alive and its reaction timer lets the coming gameLoop evaluate its AI
Evaluates(i) ==
    /\ ~players[i].isPlayer
    /\ players[i].isAlive
    /\ players[i].aiTimer + 1 > AI_REACTION_DELAY

\* the last gameLoop changed nothing of what bot i perceives before the turn of bot i:
\* no earlier player of the roster threw or respawned
SeesTickStart(i) ==
    \A k \in 1..Len(log) :
        log[k].type \in {"throw", "respawn"} => log[k].player >= i

\* the AI state the priority gives bot i in the current state
Priority(i) ==
    LET w == [players |-> players, balls |-> balls, particles |-> particles,
              log |-> <<>>]
    IN  IF Threats(w, i) # {} THEN "evade"
        ELSE IF ~players[i].hasBall /\ FreeBalls(w) # {} THEN "chase"
        ELSE IF players[i].hasBall /\ Enemies(w, i) # {}
                  /\ players[i].throwDelay - 1 <= 0 THEN "attack"
        ELSE "idle"

\* C25: a bot that evaluates its AI in a gameLoop, seeing the state the gameLoop
\* started from, evaluates once and takes the state of the priority: evade on a lethal
\* ball of another team within 300 px, else chase without a ball when a free ball
\* that is not lethal exists, else attack with a ball, a living enemy and a throw
\* delay that has run out, else idle; an evading bot throws nothing and keeps its
\* throw delay.
AIFollowsPriority ==
    [][last' = "gameLoop" =>
          \A i \in 1..Len(players) :
              (Evaluates(i) /\ SeesTickStart(i)') =>
                  /\ Cardinality(Evaluations(i)') = 1
                  /\ \A k \in Evaluations(i)' : log'[k].type = Priority(i)
                  /\ players'[i].aiState = Priority(i)
                  /\ Priority(i) = "evade" =>
                        /\ \A k \in Throws' : log'[k].player # i
                        /\ players'[i].throwDelay = players[i].throwDelay]_vars

\* C25: a bot evaded in the last gameLoop although it holds a ball, an enemy is alive
\* and its throw delay was about to run out.
EvadeBeforeAttack ==
    \E i \in 1..Len(players) :
        /\ Evaluations(i) # {}
        /\ \A k \in Evaluations(i) : log[k].type = "evade"
        /\ players[i].hasBall
        /\ players[i].throwDelay <= 1
        /\ \E e \in 1..Len(players) :
              players[e].team # players[i].team /\ players[e].isAlive

\* C26: the AI of a bot is evaluated on a cooldown of AI_REACTION_DELAY ticks; in
\* particular no bot evaluates its AI in two gameLoop runs in a row.
\* The code does not keep this: see BotEvaluatesEveryTick.
AIEvaluatedOnCooldown ==
    [][last' = "gameLoop" =>
          \A i \in 1..Len(players) : Evaluations(i) # {} => Evaluations(i)' = {}]_vars

\* C26: a bot evaluated its AI in the last gameLoop with a reaction timer that has
\* been above AI_REACTION_DELAY for five ticks: it evaluated in each of them.
BotEvaluatesEveryTick ==
    \E i \in 1..Len(players) :
        /\ Evaluations(i) # {}
        /\ players[i].aiTimer > AI_REACTION_DELAY + 5

\* the velocity a throw of bot i at enemy e gives the ball: aimed from where bot i is
\* before it moves to where e is, led by half the flight time; e has moved in this
\* tick already when it stands earlier in the roster
AimAt(i, e) ==
    LET target == IF e < i THEN players'[e] ELSE players[e]
        dist == distance(players[i].position, target.position)
        predictedPos ==
            Vec(target.position.x + TDiv(target.velocity.x * dist, 2 * Px(THROW_FORCE)),
                target.position.y + TDiv(target.velocity.y * dist, 2 * Px(THROW_FORCE)))
        dir == normalize(Vec(predictedPos.x - players[i].position.x,
                             predictedPos.y - players[i].position.y))
    IN  Vec(TDiv(dir.x * Px(THROW_FORCE), 1000), TDiv(dir.y * Px(THROW_FORCE), 1000))

\* the enemies of bot i that are alive when bot i has its turn in the coming gameLoop
LivingEnemies(i) ==
    {e \in 1..Len(players) :
        /\ players[e].team # players[i].team
        /\ \/ players[e].isAlive
           \/ e < i /\ Recorded("respawn", e)'}

\* C27: a bot throws in a gameLoop only when it evaluates its AI holding a ball,
\* with an enemy alive, no threat (when it sees the state the gameLoop started from)
\* and a throw delay that is at most 1, so that one decrement brings it to zero; the
\* throw is aimed at a living enemy; after the throw the throw delay is positive
\* and the reaction timer 0, and the bot does not throw in the next gameLoop.
BotThrowInAttackOnly ==
    [][last' = "gameLoop" =>
          /\ \A i \in 1..Len(players) : \A k \in BotThrows' :
                log'[k].player = i =>
                LET w == [players |-> players, balls |-> balls,
                          particles |-> particles, log |-> <<>>]
                IN  /\ Evaluates(i)
                    /\ players[i].hasBall
                    /\ balls[log'[k].ball].owner = players[i].id
                    /\ players[i].throwDelay - 1 <= 0
                    /\ SeesTickStart(i)' => Threats(w, i) = {}
                    /\ \E e \in LivingEnemies(i) : log'[k].after = AimAt(i, e)
                    /\ players'[i].throwDelay > 0
                    /\ players'[i].aiTimer = 0
          /\ \A k \in BotThrows : \A n \in BotThrows' :
                log'[n].player # log[k].player]_vars

\* C27: a bot threw in the last gameLoop at one of two living enemies.
BotThrewAtEnemy ==
    \E k \in BotThrows :
        /\ players[log[k].player].aiTimer = 0
        /\ Cardinality({e \in 1..Len(players) :
                            players[e].team # players[log[k].player].team
                              /\ players[e].isAlive}) = 2

\* the last handler recorded an event of one of the types for ball j
BallEvent(types, j) ==
    \E k \in 1..Len(log) : log[k].type \in types /\ log[k].ball = j

ThrownByOnlyWhileLethal ==
    \A j \in 1..Len(balls) : ~balls[j].justThrown => balls[j].thrownBy = NoId

\* C29: at the end of a tick a ball whose lethal window a wall ended in that tick
\* still names its thrower.
ThrowerKeptAfterWall ==
    /\ EndOfTick
    /\ \E k \in 1..Len(log) :
          /\ log[k].type = "wall"
          /\ log[k].lethal
          /\ ~balls[log[k].ball].justThrown
          /\ balls[log[k].ball].thrownBy # NoId

\* C30: a free lethal ball whose thrower is dead when a gameLoop tests it for hits
\* (dead before the gameLoop and not respawned by it) eliminates nobody in that
\* gameLoop, adds no kill to its thrower and is no longer lethal after it.
\* The code does not keep this: see DeadThrowerScores.
DeadThrowerBallIsNeutral ==
    [][last' = "gameLoop" =>
          \A j \in 1..Len(balls), t \in 1..Len(players) :
              (/\ balls[j].justThrown
               /\ balls[j].owner = NoId
               /\ balls[j].thrownBy = players[t].id
               /\ ~players[t].isAlive
               /\ ~Recorded("respawn", t)') =>
                  /\ ~BallEvent({"hit"}, j)'
                  /\ players'[t].kills = players[t].kills
                  /\ ~balls'[j].justThrown]_vars

\* C30: the last gameLoop eliminated a player with the ball of a thrower that is dead
\* and has a kill to its name: the kill was credited after its own elimination.
DeadThrowerScores ==
    /\ EndOfTick
    /\ \E k \in 1..Len(log) :
          /\ log[k].type = "hit"
          /\ ~players[log[k].thrower].isAlive
          /\ players[log[k].thrower].kills > 0
          /\ ~players[log[k].player].isAlive

\* the pickups of the last gameLoop, as positions in the log
Pickups == {k \in 1..Len(log) : last = "gameLoop" /\ log[k].type = "pickup"}

NoRespawnInFixedRounds ==
    [][(~infiniteMode /\ last' # "initGame") =>
          /\ \A i \in 1..Len(players) :
                /\ players'[i].respawnTime = 0
                /\ ~players[i].isAlive => ~players'[i].isAlive
                /\ last' = "gameLoop" => ~Recorded("respawn", i)'
          /\ \A team \in Teams : Alive(players', team) <= Alive(players, team)]_vars

\* C32: a fixed-round match goes on at the end of a tick that ran more than
\* RESPAWN_TIME after the start of the match, with a player dead.
DeadStaysDeadInFixedRounds ==
    /\ EndOfTick
    /\ ~infiniteMode
    /\ gameState = "playing"
    /\ now - gameStartTime > RESPAWN_TIME
    /\ \E i \in 1..Len(players) : ~players[i].isAlive

\* the players that are alive and have as many kills as any living player
TopKillers ==
    {i \in 1..Len(players) :
        /\ players[i].isAlive
        /\ \A k \in 1..Len(players) : players[k].isAlive => players[k].kills <= players[i].kills}

\* the players marked with the aura
AuraHolders == {i \in 1..Len(players) : players[i].hasAura}

\* C33: the aura pass of a gameLoop marks at most one player, and only a player that
\* is alive when the gameLoop starts, with kills above 0 that no living player
\* exceeds; when no living player has a kill it marks nobody.
AuraOnTopKiller ==
    [][last' = "gameLoop" =>
          /\ Cardinality(AuraHolders') <= 1
          /\ \A i \in AuraHolders' : i \in TopKillers /\ players[i].kills > 0
          /\ (\A i \in 1..Len(players) : players[i].isAlive => players[i].kills = 0)
                => AuraHolders' = {}]_vars

\* C33: at the end of a tick one of two living players with the same positive
\* number of kills has the aura and the other has not.
OneOfTwoTopKillersMarked ==
    /\ EndOfTick
    /\ \E i, k \in TopKillers :
          /\ i # k
          /\ players[i].kills > 0
          /\ players[i].hasAura
          /\ ~players[k].hasAura

\* C34: a player that has the aura, is alive and is among the top killers with a kill
\* to its name when a gameLoop starts has the aura after that gameLoop, whoever else
\* is among the top killers.
\* The code does not keep this: see AuraWithEarlierTopKiller.
AuraIsSticky ==
    [][last' = "gameLoop" =>
          \A i \in AuraHolders :
              (i \in TopKillers /\ players[i].kills > 0) => players'[i].hasAura]_vars

\* C34: at the end of a tick two living players are top killers with the same positive
\* number of kills; the aura is with the one earlier in the roster, a bot, and not
\* with the human, who is later in the roster.
AuraWithEarlierTopKiller ==
    /\ EndOfTick
    /\ gameState = "playing"
    /\ \E i, k \in TopKillers :
          /\ i < k
          /\ players[i].kills > 0
          /\ players[i].hasAura
          /\ ~players[i].isPlayer
          /\ players[k].isPlayer
          /\ ~players[k].hasAura

\* C35: gameLoop runs at frame callbacks only: apart from the run that starts the
\* loop right after initGame, every run of gameLoop comes one frame after the clock
\* of the step before it, and a mouse move is never followed by a run of gameLoop
\* at the same clock.
\* The code does not keep this: see StepWithoutFrame.
StepsOnlyAtFrames ==
    [][(last' = "gameLoop" /\ last # "initGame") => now' = now + FrameMs]_vars

\* C35: after a mouse move a match that never stalled has run gameLoop more often
\* than frames have passed since its first run.
StepWithoutFrame ==
    /\ EndOfTick
    /\ mousePosition \in MousePoints
    /\ frame > 1
    /\ now - gameStartTime < (frame - 1) * FrameMs

\* C36: at the end of every tick a living player has hasBall set if and only if
\* exactly one ball has that player's id as its owner.
\* The code does not keep this: see OwnerWithoutFlag.
HasBallIffOwnsOneBall ==
    EndOfTick =>
        \A i \in 1..Len(players) :
            players[i].isAlive => (players[i].hasBall <=> Cardinality(Owned(i)) = 1)

\* C36: at the end of a tick a living player with hasBall = FALSE is the owner of
\* a ball.
OwnerWithoutFlag ==
    /\ EndOfTick
    /\ \E i \in 1..Len(players) :
           players[i].isAlive /\ ~players[i].hasBall /\ Cardinality(Owned(i)) = 1

\* C37: whenever an infinite match is over the human is dead and the outcome shown
\* is a defeat, whatever the kills and the living counts are.
InfiniteMatchEndsInDefeat ==
    (gameState = "results" /\ infiniteMode) => (~HumanAlive /\ ~playerWon)

\* C37: an infinite match is over while the human's team still has a living member.
InfiniteMatchLostWithTeamAlive ==
    EndOfTick /\ gameState = "results" /\ infiniteMode /\ ~HumanAlive /\ HumanTeamAlive >= 1

\* the balls a match can have
BallIds == UNION {1..2 * n : n \in TeamSizes}

\* ball j is in the state its thrower left it in
Lethal(j) == j <= Len(balls) /\ balls[j].justThrown

\* C38: while gameLoop keeps running, every ball with justThrown set has justThrown
\* cleared after finitely many runs (or the match is over and no run follows), also
\* when the ball-ball pass gave it velocity on the way.
ThrownBallStopsBeingLethal ==
    \A j \in BallIds : Lethal(j) ~> (~Lethal(j) \/ gameState # "playing")

\* C38: the second ball, too slow to reach a wall by itself, was pushed along the
\* middle line by the first ball while it had justThrown set, has touched the left
\* or right wall in this gameLoop and is no longer lethal; the match still runs.
PushedBallStoppedBeingLethal ==
    /\ EndOfTick
    /\ gameState = "playing"
    /\ Len(balls) = 2
    /\ ~Lethal(2)
    /\ balls[2].position.y = Px(CANVAS_HEIGHT) \div 2
    /\ \E k \in 1..Len(log) :
           log[k].type = "wall" /\ log[k].ball = 2 /\ log[k].lethal

\* ball j lies inside the arena
InArena(j) ==
    /\ balls[j].position.x >= Px(BALL_RADIUS)
    /\ balls[j].position.x <= Px(CANVAS_WIDTH) - Px(BALL_RADIUS)
    /\ balls[j].position.y >= Px(BALL_RADIUS)
    /\ balls[j].position.y <= Px(CANVAS_HEIGHT) - Px(BALL_RADIUS)

\* C39: at the end of every tick every free ball lies inside the arena, its centre
\* at least one radius away from each wall, also after the ball-ball pass.
FreeBallsInArena ==
    EndOfTick => \A j \in 1..Len(balls) : balls[j].owner = NoId => InArena(j)

\* C39: at the end of a tick a free ball that the ball-ball pass pushed lies outside
\* the arena.
BallPushedOutOfArena ==
    /\ EndOfTick
    /\ \E j \in Collided : j \in 1..Len(balls) /\ balls[j].owner = NoId /\ ~InArena(j)

\* the throws the bots made in the run of gameLoop that has just been applied
StateBotThrows == {k \in 1..Len(log) : last = "gameLoop" /\ log[k].type = "throw"}

\* C40: in the React-state variant, once the updates of a run of gameLoop have been
\* applied, the ball of every bot that threw in that run is unowned with justThrown
\* set and thrownBy the bot, and the bot has hasBall = FALSE.
\* The code does not keep this: see BotThrowOverwritten.
BotThrowSurvivesTick ==
    \A k \in StateBotThrows :
        /\ log[k].ball <= Len(balls)
        /\ balls[log[k].ball].owner = NoId
        /\ balls[log[k].ball].justThrown
        /\ balls[log[k].ball].thrownBy = players[log[k].player].id
        /\ ~players[log[k].player].hasBall

\* C40: after the updates of a run of gameLoop in which a bot threw, the bot still
\* owns its ball, the ball is not lethal and the bot has hasBall = TRUE.
BotThrowOverwritten ==
    \E k \in StateBotThrows :
        /\ log[k].ball <= Len(balls)
        /\ balls[log[k].ball].owner = players[log[k].player].id
        /\ ~balls[log[k].ball].justThrown
        /\ balls[log[k].ball].velocity = Vec(0, 0)
        /\ players[log[k].player].hasBall

====
